---- MODULE Spec2Model ----
(***************************************************************************)
(* Model of the asynchronous job orchestrator of backend-react/main.py:    *)
(* the Job Store (JOBS, JOB_LOCK), the worker pool (EXECUTOR, process_job),*)
(* the Idempotency Ledger, the Nonce Store and signature validator, and    *)
(* the status responder (GET /jobs/<id>).                                  *)
(*                                                                         *)
(* Threads interleave between any two accesses of shared state.  A block   *)
(* "with LOCK:" excludes only the other blocks on the same lock: code that *)
(* reads a job dict outside JOB_LOCK (get_job_status, send_callback) sees  *)
(* every intermediate state of a write-back, so each write of a locked     *)
(* block on a job is a step of its own.                                     *)
(***************************************************************************)
EXTENDS Integers, Sequences, FiniteSets, TLC

(***************************************************************************)
(* Bounds of the model.                                                    *)
(***************************************************************************)
MaxPosts == 1       \* POST /jobs requests of a job life-cycle run
MaxGets == 1        \* GET /jobs/<id> requests of a job life-cycle run
MaxItems == 2       \* items (URLs, archive entries) of one batch
MaxTicks == 1       \* seconds the clock advances while jobs run
MaxPolls == 2       \* concurrent GET /jobs/<id> requests of a polling run
MaxPollItems == 1   \* items of the batch that is polled

(***************************************************************************)
(* Program constants.                                                      *)
(***************************************************************************)
max_workers == 3            \* EXECUTOR = ThreadPoolExecutor(max_workers=3)
NONCE_TTL == 300            \* NONCE_TTL = 300
SignatureWindow == 300      \* abs(current_time - timestamp) > 300
CleanupPeriod == 60         \* time.time() % 60 < 1
MaxTtlHours == 168          \* min(ttl_h, 168)
SecondsPerHour == 3600      \* job["ttl_h"] * 3600
DefaultTtlHours == 24       \* ttl_h = 24
LargeBatch == 5             \* len(results) > 5
DownloadTtl == 3600         \* int(current_time + 3600)
RetryAfterQueued == 2       \* resp.headers['Retry-After'] = '2'
RetryAfterProcessing == 5   \* resp.headers['Retry-After'] = '5'
EtaZip == 120               \* eta_s = 120
EtaPerUrl == 10             \* len(urls) * 10
EtaMax == 900               \* min(eta_s, 900)
MaxZipImages == 50          \* len(image_files) > 50
T0 == 100 * CleanupPeriod   \* the clock reading at start-up

(***************************************************************************)
(* Python values.  None is the empty tuple and a value v that may be None  *)
(* is the 1-tuple <<v>>; a time that may be None is 0 (time.time() is      *)
(* never 0, and the code tests these fields for truth only).               *)
(***************************************************************************)
None == <<>>

Some(v) == <<v>>

Val(o) == o[1]

Min(a, b) == IF a <= b THEN a ELSE b

Abs(x) == IF x < 0 THEN 0 - x ELSE x

VARIABLES
    now,                \* time.time(), in whole seconds
    REQUIRE_SIGNATURE,  \* os.environ.get("REQUIRE_SIGNATURE") == "true"
    JOBS,               \* job_id -> job dict
    JOB_LOCK,           \* holder of JOB_LOCK
    queue,              \* EXECUTOR's work queue: submitted, not yet picked up
    wpc,                \* job_id -> position of the worker running process_job
    wloc,               \* job_id -> locals of that process_job call
    NONCE_CACHE,        \* nonce -> timestamp
    IDEMPOTENCY_CACHE,  \* key -> (job_id, body_hash)
    req,                \* the HTTP requests received, in order of arrival
    run,                \* per request: position in its handler, locals, response
    webhooks            \* the POSTs send_callback has issued

vars == <<now, REQUIRE_SIGNATURE, JOBS, JOB_LOCK, queue, wpc, wloc,
          NONCE_CACHE, IDEMPOTENCY_CACHE, req, run, webhooks>>

(***************************************************************************)
(* The Job Store and the worker pool.                                      *)
(***************************************************************************)
Free == <<"free", 0>>

WorkerOf(j) == <<"worker", j>>

HandlerOf(r) == <<"request", r>>

\* create_job: the dict stored in JOBS[job_id].
NewJob(job_id, job_type, data, callback_url, ttl_h, request_id, idempotency_key) ==
    [id |-> job_id, type |-> job_type, status |-> "queued", progress |-> 0,
     data |-> data, callback_url |-> callback_url, created_at |-> now,
     started_at |-> 0, finished_at |-> 0, ttl_h |-> Min(ttl_h, MaxTtlHours),
     results |-> None, error |-> None, request_id |-> request_id,
     idempotency_key |-> idempotency_key, download_url |-> None]

\* The indices, in input order, of the items that are fetched, decoded and
\* processed successfully.
OkIndices(items) ==
    SelectSeq([i \in 1..Len(items) |-> i], LAMBDA i: items[i] = "ok")

\* process_zip_file on the archive of a zip_batch job.
process_zip_file(zip_data) ==
    IF ~zip_data.openable
    THEN [success |-> FALSE, results |-> <<>>, error |-> "Invalid ZIP file format"]
    ELSE IF Len(zip_data.items) > MaxZipImages
    THEN [success |-> FALSE, results |-> <<>>, error |-> "Too many images: max 50 per ZIP"]
    ELSE IF Len(zip_data.items) = 0
    THEN [success |-> FALSE, results |-> <<>>, error |-> "No valid images found in ZIP"]
    ELSE IF Len(OkIndices(zip_data.items)) = 0
    THEN [success |-> FALSE, results |-> <<>>, error |-> "No images could be processed from ZIP"]
    ELSE [success |-> TRUE, results |-> OkIndices(zip_data.items), error |-> ""]

\* Progress with an off-by-one: the index i in place of i + 1.
ProgressOffByOne(done, total) == ((done - 1) * 100) \div total

\* Progress that counts the items still to do.
ProgressRemaining(done, total) == ((total - done) * 100) \div total

\* int((i + 1) / total * 100); the float expression equals the integer
\* quotient for every total below 50.
Progress(done, total) == (done * 100) \div total

\* download_url of process_job.
DownloadUrl(job_id, results) ==
    IF Len(results) > LargeBatch THEN Some(<<"results.zip", job_id>>) ELSE None

Running == {j \in DOMAIN wpc : wpc[j] \notin {"queued", "done"}}

\* Where process_job goes once the write-back is over: send_callback or the end.
AfterWriteBack(j) == IF JOBS[j].callback_url # None THEN "s283" ELSE "done"

\* WorkerDequeue of a pool that starts a thread for every submitted job.
WorkerDequeueUnbounded(j) ==
    /\ queue # <<>> /\ Head(queue) = j
    /\ queue' = Tail(queue)
    /\ wpc' = [wpc EXCEPT ![j] = "w195"]
    /\ UNCHANGED <<now, REQUIRE_SIGNATURE, JOBS, JOB_LOCK, wloc, NONCE_CACHE,
                   IDEMPOTENCY_CACHE, req, run, webhooks>>

\* WorkerDequeue of a pool that hands out the newest submitted job first.
WorkerDequeueNewest(j) ==
    /\ queue # <<>> /\ queue[Len(queue)] = j
    /\ Cardinality(Running) < max_workers
    /\ queue' = SubSeq(queue, 1, Len(queue) - 1)
    /\ wpc' = [wpc EXCEPT ![j] = "w195"]
    /\ UNCHANGED <<now, REQUIRE_SIGNATURE, JOBS, JOB_LOCK, wloc, NONCE_CACHE,
                   IDEMPOTENCY_CACHE, req, run, webhooks>>

\* A pool thread takes the oldest submitted job (ThreadPoolExecutor, max_workers).
WorkerDequeue(j) ==
    /\ queue # <<>> /\ Head(queue) = j
    /\ Cardinality(Running) < max_workers
    /\ queue' = Tail(queue)
    /\ wpc' = [wpc EXCEPT ![j] = "w195"]
    /\ UNCHANGED <<now, REQUIRE_SIGNATURE, JOBS, JOB_LOCK, wloc, NONCE_CACHE,
                   IDEMPOTENCY_CACHE, req, run, webhooks>>

\* process_job lines 195-199: with JOB_LOCK: ... job["status"] = "processing".
WorkerSetProcessing(j) ==
    /\ wpc[j] = "w195" /\ JOB_LOCK = Free
    /\ IF j \notin DOMAIN JOBS
       THEN /\ wpc' = [wpc EXCEPT ![j] = "done"]
            /\ UNCHANGED <<JOBS, JOB_LOCK>>
       ELSE /\ JOBS' = [JOBS EXCEPT ![j].status = "processing"]
            /\ JOB_LOCK' = WorkerOf(j)
            /\ wpc' = [wpc EXCEPT ![j] = "w200"]
    /\ UNCHANGED <<now, REQUIRE_SIGNATURE, queue, wloc, NONCE_CACHE,
                   IDEMPOTENCY_CACHE, req, run, webhooks>>

\* WorkerSetStartedAt that leaves JOB_LOCK held.
WorkerSetStartedAtLocked(j) ==
    /\ wpc[j] = "w200"
    /\ JOBS' = [JOBS EXCEPT ![j].started_at = now]
    /\ wpc' = [wpc EXCEPT ![j] = IF JOBS[j].type = "zip_batch" THEN "w209" ELSE "w224"]
    /\ UNCHANGED <<now, REQUIRE_SIGNATURE, JOB_LOCK, queue, wloc, NONCE_CACHE,
                   IDEMPOTENCY_CACHE, req, run, webhooks>>

\* line 200: job["started_at"] = time.time(); the lock is released.
WorkerSetStartedAt(j) ==
    /\ wpc[j] = "w200"
    /\ JOBS' = [JOBS EXCEPT ![j].started_at = now]
    /\ JOB_LOCK' = Free
    /\ wpc' = [wpc EXCEPT ![j] = IF JOBS[j].type = "zip_batch" THEN "w209" ELSE "w224"]
    /\ UNCHANGED <<now, REQUIRE_SIGNATURE, queue, wloc, NONCE_CACHE,
                   IDEMPOTENCY_CACHE, req, run, webhooks>>

\* lines 208-219: result = process_zip_file(zip_data); a failure raises.
WorkerZip(j) ==
    /\ wpc[j] = "w209"
    /\ LET result == process_zip_file(JOBS[j].data)
       IN  IF result.success
           THEN /\ wloc' = [wloc EXCEPT ![j].results = result.results, ![j].i = 0]
                /\ wpc' = [wpc EXCEPT ![j] = "w215"]
           ELSE /\ wloc' = [wloc EXCEPT ![j].exc = result.error]
                /\ wpc' = [wpc EXCEPT ![j] = "w265"]
    /\ UNCHANGED <<now, REQUIRE_SIGNATURE, JOBS, JOB_LOCK, queue, NONCE_CACHE,
                   IDEMPOTENCY_CACHE, req, run, webhooks>>

\* lines 214-217: for i, _ in enumerate(results): progress = int((i+1)/len(results)*100).
WorkerZipProgress(j) ==
    /\ wpc[j] = "w215" /\ JOB_LOCK = Free
    /\ LET i == wloc[j].i
           n == Len(wloc[j].results)
       IN  /\ JOBS' = [JOBS EXCEPT ![j].progress = Progress(i + 1, n)]
           /\ wloc' = [wloc EXCEPT ![j].i = i + 1]
           /\ wpc' = [wpc EXCEPT ![j] = IF i + 1 < n THEN "w215" ELSE "w250"]
    /\ UNCHANGED <<now, REQUIRE_SIGNATURE, JOB_LOCK, queue, NONCE_CACHE,
                   IDEMPOTENCY_CACHE, req, run, webhooks>>

\* WorkerUrlItem that puts each new result in front of the earlier ones.
WorkerUrlItemReversed(j) ==
    /\ wpc[j] = "w224" /\ JOB_LOCK = Free
    /\ LET urls == JOBS[j].data.items
           i == wloc[j].i
       IN  /\ wloc' = [wloc EXCEPT
                         ![j].results = IF urls[i + 1] = "ok"
                                        THEN <<i + 1>> \o @ ELSE @,
                         ![j].i = i + 1]
           /\ JOBS' = [JOBS EXCEPT ![j].progress = Progress(i + 1, Len(urls))]
           /\ wpc' = [wpc EXCEPT ![j] = IF i + 1 < Len(urls) THEN "w224" ELSE "w250"]
    /\ UNCHANGED <<now, REQUIRE_SIGNATURE, JOB_LOCK, queue, NONCE_CACHE,
                   IDEMPOTENCY_CACHE, req, run, webhooks>>

\* lines 224-241: one URL of a url_batch: fetch_url_internal and process_image
\* (a failure of either is swallowed), then progress = int((i+1)/len(urls)*100).
WorkerUrlItem(j) ==
    /\ wpc[j] = "w224" /\ JOB_LOCK = Free
    /\ LET urls == JOBS[j].data.items
           i == wloc[j].i
       IN  /\ wloc' = [wloc EXCEPT
                         ![j].results = IF urls[i + 1] = "ok"
                                        THEN Append(@, i + 1) ELSE @,
                         ![j].i = i + 1]
           /\ JOBS' = [JOBS EXCEPT ![j].progress = Progress(i + 1, Len(urls))]
           /\ wpc' = [wpc EXCEPT ![j] = IF i + 1 < Len(urls) THEN "w224" ELSE "w250"]
    /\ UNCHANGED <<now, REQUIRE_SIGNATURE, JOB_LOCK, queue, NONCE_CACHE,
                   IDEMPOTENCY_CACHE, req, run, webhooks>>

\* lines 244-250: download_url; with JOB_LOCK: JOBS[job_id]["status"] = "completed".
WorkerSetCompleted(j) ==
    /\ wpc[j] = "w250" /\ JOB_LOCK = Free
    /\ JOB_LOCK' = WorkerOf(j)
    /\ JOBS' = [JOBS EXCEPT ![j].status = "completed"]
    /\ wloc' = [wloc EXCEPT ![j].download_url = DownloadUrl(j, wloc[j].results)]
    /\ wpc' = [wpc EXCEPT ![j] = "w251"]
    /\ UNCHANGED <<now, REQUIRE_SIGNATURE, queue, NONCE_CACHE,
                   IDEMPOTENCY_CACHE, req, run, webhooks>>

\* line 251: JOBS[job_id]["progress"] = 100.
WorkerSetProgress100(j) ==
    /\ wpc[j] = "w251"
    /\ JOBS' = [JOBS EXCEPT ![j].progress = 100]
    /\ wpc' = [wpc EXCEPT ![j] = "w252"]
    /\ UNCHANGED <<now, REQUIRE_SIGNATURE, JOB_LOCK, queue, wloc, NONCE_CACHE,
                   IDEMPOTENCY_CACHE, req, run, webhooks>>

\* line 252: JOBS[job_id]["finished_at"] = time.time().
WorkerSetFinishedAt(j) ==
    /\ wpc[j] = "w252"
    /\ JOBS' = [JOBS EXCEPT ![j].finished_at = now]
    /\ wpc' = [wpc EXCEPT ![j] = "w253"]
    /\ UNCHANGED <<now, REQUIRE_SIGNATURE, JOB_LOCK, queue, wloc, NONCE_CACHE,
                   IDEMPOTENCY_CACHE, req, run, webhooks>>

\* line 253: JOBS[job_id]["results"] = results.
WorkerSetResults(j) ==
    /\ wpc[j] = "w253"
    /\ JOBS' = [JOBS EXCEPT ![j].results = Some(wloc[j].results)]
    /\ wpc' = [wpc EXCEPT ![j] = "w254"]
    /\ UNCHANGED <<now, REQUIRE_SIGNATURE, JOB_LOCK, queue, wloc, NONCE_CACHE,
                   IDEMPOTENCY_CACHE, req, run, webhooks>>

\* line 254: JOBS[job_id]["download_url"] = download_url; the lock is released;
\* lines 256-261: the callback, if the job has one.
WorkerSetDownloadUrl(j) ==
    /\ wpc[j] = "w254"
    /\ JOBS' = [JOBS EXCEPT ![j].download_url = wloc[j].download_url]
    /\ JOB_LOCK' = Free
    /\ wloc' = [wloc EXCEPT ![j].cb_status = "completed"]
    /\ wpc' = [wpc EXCEPT ![j] = AfterWriteBack(j)]
    /\ UNCHANGED <<now, REQUIRE_SIGNATURE, queue, NONCE_CACHE,
                   IDEMPOTENCY_CACHE, req, run, webhooks>>

\* lines 263-266: except Exception: with JOB_LOCK: JOBS[job_id]["status"] = "failed".
WorkerSetFailed(j) ==
    /\ wpc[j] = "w265" /\ JOB_LOCK = Free
    /\ JOB_LOCK' = WorkerOf(j)
    /\ JOBS' = [JOBS EXCEPT ![j].status = "failed"]
    /\ wpc' = [wpc EXCEPT ![j] = "w267"]
    /\ UNCHANGED <<now, REQUIRE_SIGNATURE, queue, wloc, NONCE_CACHE,
                   IDEMPOTENCY_CACHE, req, run, webhooks>>

\* WorkerSetFailedAt without the write of finished_at.
WorkerSetFailedAtOmitted(j) ==
    /\ wpc[j] = "w267"
    /\ wpc' = [wpc EXCEPT ![j] = "w268"]
    /\ UNCHANGED <<now, REQUIRE_SIGNATURE, JOBS, JOB_LOCK, queue, wloc, NONCE_CACHE,
                   IDEMPOTENCY_CACHE, req, run, webhooks>>

\* line 267: JOBS[job_id]["finished_at"] = time.time().
WorkerSetFailedAt(j) ==
    /\ wpc[j] = "w267"
    /\ JOBS' = [JOBS EXCEPT ![j].finished_at = now]
    /\ wpc' = [wpc EXCEPT ![j] = "w268"]
    /\ UNCHANGED <<now, REQUIRE_SIGNATURE, JOB_LOCK, queue, wloc, NONCE_CACHE,
                   IDEMPOTENCY_CACHE, req, run, webhooks>>

\* WorkerSetError without the write of the error.
WorkerSetErrorOmitted(j) ==
    /\ wpc[j] = "w268"
    /\ JOB_LOCK' = Free
    /\ wloc' = [wloc EXCEPT ![j].cb_status = "failed"]
    /\ wpc' = [wpc EXCEPT ![j] = AfterWriteBack(j)]
    /\ UNCHANGED <<now, REQUIRE_SIGNATURE, JOBS, queue, NONCE_CACHE,
                   IDEMPOTENCY_CACHE, req, run, webhooks>>

\* lines 268-271: JOBS[job_id]["error"] = {...}; the lock is released;
\* lines 273-278: the callback, if the job has one.
WorkerSetError(j) ==
    /\ wpc[j] = "w268"
    /\ JOBS' = [JOBS EXCEPT ![j].error =
                   Some([error_code |-> "PROCESSING_ERROR", message |-> wloc[j].exc])]
    /\ JOB_LOCK' = Free
    /\ wloc' = [wloc EXCEPT ![j].cb_status = "failed"]
    /\ wpc' = [wpc EXCEPT ![j] = AfterWriteBack(j)]
    /\ UNCHANGED <<now, REQUIRE_SIGNATURE, queue, NONCE_CACHE,
                   IDEMPOTENCY_CACHE, req, run, webhooks>>

(***************************************************************************)
(* HTTP requests: what a client sends, and what a handler holds and answers.*)
(***************************************************************************)
WEBHOOK_SECRET == "brewchrome-default-secret"

\* hashlib.sha256(body).hexdigest(): a digest that tells bodies apart.
Sha256(body) == <<"sha256", body>>

\* The text of an integer, f"{timestamp}".
TsText(n) == [form |-> "canon", n |-> n]

\* f"{timestamp}\n{request.method}\n{request.path}\n{body_hash}"
Message(timestamp, method, path, body) ==
    [timestamp |-> TsText(timestamp), method |-> method, path |-> path,
     body_hash |-> Sha256(body)]

\* hmac.new(secret, message, sha256).hexdigest()
Hmac(secret, message) == [key |-> secret, message |-> message]

\* f"sha256={expected_signature}"
SignatureHeader(h) == <<"sha256=", h>>

\* int(timestamp_header): the forms of X-Timestamp that parse.
Parses(ts) == ts.form \in {"canon", "padded"}

NoBody == [shape |-> "none", items |-> <<>>, openable |-> FALSE,
           callback_url |-> None, ttl_h |-> DefaultTtlHours]

EmptyProjection ==
    [job_id |-> 0, status |-> "", request_id |-> "", created_at |-> 0,
     expires_at |-> 0, started_at |-> 0, finished_at |-> 0, progress |-> None,
     results |-> None, results_count |-> None, download_url |-> None,
     download_expires_at |-> 0, error |-> None, user_message |-> None]

NoResp == [code |-> 0, error_code |-> "", job_id |-> 0, status |-> "", eta_s |-> 0,
           body |-> None, etag |-> None, retry_after |-> 0]

\* make_error(status_code, error_code, ...)
make_error(status_code, error_code) ==
    [NoResp EXCEPT !.code = status_code, !.error_code = error_code]

NewRun(start) ==
    [pc |-> start, request_id |-> "", current_time |-> 0, existing_job_id |-> 0,
     job_id |-> 0, expires_at |-> 0, response |-> EmptyProjection, etag |-> None,
     resp |-> NoResp]

Reqs == 1..Len(req)

Posts == {r \in Reqs : req[r].method = "POST"}

Gets == {r \in Reqs : req[r].method = "GET"}

Done(r) == run[r].pc = "done"

\* A handler returns: the response is sent.
Respond(r, response) ==
    run' = [run EXCEPT ![r].pc = "done", ![r].resp = response]

Goto(r, next) == run' = [run EXCEPT ![r].pc = next]

\* cleanup_nonce_cache()
cleanup_nonce_cache(cache, current_time) ==
    LET expired == {nonce \in DOMAIN cache : current_time - cache[nonce] > NONCE_TTL}
    IN  [nonce \in DOMAIN cache \ expired |-> cache[nonce]]

\* _before, lines 88-105: the request id, the periodic clean-up of the nonce
\* cache, and whether validate_request_signature guards the handler.
Arrive(request) ==
    /\ req' = Append(req, request)
    /\ run' = Append(run,
          [NewRun(IF request.method = "POST" /\ REQUIRE_SIGNATURE THEN "v364"
                  ELSE IF request.method = "POST" THEN "p755" ELSE "g854")
             EXCEPT !.request_id = IF request.rid # None THEN Val(request.rid) ELSE "gen"])
    /\ NONCE_CACHE' = IF now % CleanupPeriod < 1
                      THEN cleanup_nonce_cache(NONCE_CACHE, now)
                      ELSE NONCE_CACHE
    /\ UNCHANGED <<now, REQUIRE_SIGNATURE, JOBS, JOB_LOCK, queue, wpc, wloc,
                   IDEMPOTENCY_CACHE, webhooks>>

(***************************************************************************)
(* send_callback: the webhook of a job that has a callback_url.  The job   *)
(* dict is looked up under JOB_LOCK and its fields are read after the lock *)
(* is released.                                                            *)
(***************************************************************************)
NoPayload ==
    [job_id |-> 0, status |-> "", request_id |-> "", created_at |-> 0,
     finished_at |-> 0, timestamp |-> 0, results_count |-> None,
     download_url |-> None, error |-> None]

\* What requests.post does: a 200, another status, or a timeout or network
\* error raised as an exception.
Deliveries == {"200", "non200", "raised"}

\* lines 283-284: with JOB_LOCK: job = JOBS.get(job_id, {}).
SendLookup(j) ==
    /\ wpc[j] = "s283" /\ JOB_LOCK = Free
    /\ wpc' = [wpc EXCEPT ![j] = "s286"]
    /\ UNCHANGED <<now, REQUIRE_SIGNATURE, JOBS, JOB_LOCK, queue, wloc, NONCE_CACHE,
                   IDEMPOTENCY_CACHE, req, run, webhooks>>

\* lines 286-300: timestamp and the payload common to both statuses.
SendBuildPayload(j) ==
    /\ wpc[j] = "s286"
    /\ wloc' = [wloc EXCEPT ![j].payload =
                   [NoPayload EXCEPT
                       !.job_id = j, !.status = wloc[j].cb_status,
                       !.request_id = JOBS[j].request_id,
                       !.created_at = JOBS[j].created_at,
                       !.finished_at = JOBS[j].finished_at,
                       !.timestamp = now]]
    /\ wpc' = [wpc EXCEPT ![j] = IF wloc[j].cb_status = "completed" THEN "s297"
                                 ELSE "s301"]
    /\ UNCHANGED <<now, REQUIRE_SIGNATURE, JOBS, JOB_LOCK, queue, NONCE_CACHE,
                   IDEMPOTENCY_CACHE, req, run, webhooks>>

\* line 297: payload["results_count"] = len(job.get("results", [])); the key
\* is always there, so len(None) raises when the results were cleared and
\* line 328 logs the exception: no POST is made.
SendReadResults(j) ==
    /\ wpc[j] = "s297"
    /\ IF JOBS[j].results = None
       THEN /\ wpc' = [wpc EXCEPT ![j] = "done"]
            /\ UNCHANGED wloc
       ELSE /\ wloc' = [wloc EXCEPT
                   ![j].payload.results_count = Some(Len(Val(JOBS[j].results)))]
            /\ wpc' = [wpc EXCEPT ![j] = "s298"]
    /\ UNCHANGED <<now, REQUIRE_SIGNATURE, JOBS, JOB_LOCK, queue, NONCE_CACHE,
                   IDEMPOTENCY_CACHE, req, run, webhooks>>

\* line 298: if job.get("download_url").
SendTestDownloadUrl(j) ==
    /\ wpc[j] = "s298"
    /\ wpc' = [wpc EXCEPT ![j] = IF JOBS[j].download_url # None THEN "s299" ELSE "s304"]
    /\ UNCHANGED <<now, REQUIRE_SIGNATURE, JOBS, JOB_LOCK, queue, wloc, NONCE_CACHE,
                   IDEMPOTENCY_CACHE, req, run, webhooks>>

\* line 299: payload["download_url"] = job["download_url"].
SendReadDownloadUrl(j) ==
    /\ wpc[j] = "s299"
    /\ wloc' = [wloc EXCEPT ![j].payload.download_url = JOBS[j].download_url]
    /\ wpc' = [wpc EXCEPT ![j] = "s304"]
    /\ UNCHANGED <<now, REQUIRE_SIGNATURE, JOBS, JOB_LOCK, queue, NONCE_CACHE,
                   IDEMPOTENCY_CACHE, req, run, webhooks>>

\* lines 300-301: payload["error"] = job.get("error", {}).
SendReadError(j) ==
    /\ wpc[j] = "s301"
    /\ wloc' = [wloc EXCEPT ![j].payload.error = JOBS[j].error]
    /\ wpc' = [wpc EXCEPT ![j] = "s304"]
    /\ UNCHANGED <<now, REQUIRE_SIGNATURE, JOBS, JOB_LOCK, queue, NONCE_CACHE,
                   IDEMPOTENCY_CACHE, req, run, webhooks>>

\* lines 304-318: the signed request send_callback is about to make.
Webhook(callback_url, payload) ==
    [url |-> callback_url, payload |-> payload,
     signature |-> SignatureHeader(Hmac(WEBHOOK_SECRET, payload)),
     timestamp |-> payload.timestamp]

\* SendPost that tries a second time when the delivery did not answer 200.
SendPostRetried(j) ==
    /\ wpc[j] = "s304"
    /\ \E delivery \in Deliveries :
           LET hook == [request |-> Webhook(Val(JOBS[j].callback_url), wloc[j].payload),
                        delivery |-> delivery]
           IN  webhooks' = IF delivery = "200" THEN Append(webhooks, hook)
                           ELSE webhooks \o <<hook, hook>>
    /\ wpc' = [wpc EXCEPT ![j] = "done"]
    /\ UNCHANGED <<now, REQUIRE_SIGNATURE, JOBS, JOB_LOCK, queue, wloc, NONCE_CACHE,
                   IDEMPOTENCY_CACHE, req, run>>

\* lines 304-328: the POST, once, whatever comes back; the outcome is logged.
SendPost(j) ==
    /\ wpc[j] = "s304"
    /\ \E delivery \in Deliveries :
           webhooks' = Append(webhooks,
               [request |-> Webhook(Val(JOBS[j].callback_url), wloc[j].payload),
                delivery |-> delivery])
    /\ wpc' = [wpc EXCEPT ![j] = "done"]
    /\ UNCHANGED <<now, REQUIRE_SIGNATURE, JOBS, JOB_LOCK, queue, wloc, NONCE_CACHE,
                   IDEMPOTENCY_CACHE, req, run>>

(***************************************************************************)
(* validate_request_signature.                                             *)
(***************************************************************************)
\* lines 364-376: the headers, int(timestamp_header), the 300 s window.
ValidateTimestamp(r) ==
    /\ run[r].pc = "v364"
    /\ IF req[r].ts.form = "missing" \/ req[r].sig = None
       THEN Respond(r, make_error(401, "MISSING_SIGNATURE"))
       ELSE IF ~Parses(req[r].ts)
       THEN Respond(r, make_error(401, "INVALID_TIMESTAMP"))
       ELSE IF Abs(now - req[r].ts.n) > SignatureWindow
       THEN Respond(r, make_error(401, "TIMESTAMP_OUT_OF_RANGE"))
       ELSE run' = [run EXCEPT ![r].pc = "v380", ![r].current_time = now]
    /\ UNCHANGED <<now, REQUIRE_SIGNATURE, JOBS, JOB_LOCK, queue, wpc, wloc,
                   NONCE_CACHE, IDEMPOTENCY_CACHE, req, webhooks>>

\* request.headers.get('X-Request-Id', '')
NonceOf(request) == IF request.rid # None THEN Val(request.rid) ELSE ""

\* ValidateNonce that looks the nonce up and does not record it.
ValidateNonceUnrecorded(r) ==
    /\ run[r].pc = "v380"
    /\ IF NonceOf(req[r]) \in DOMAIN NONCE_CACHE
       THEN Respond(r, make_error(401, "NONCE_REUSED"))
       ELSE Goto(r, "v386")
    /\ UNCHANGED <<now, REQUIRE_SIGNATURE, JOBS, JOB_LOCK, queue, wpc, wloc,
                   NONCE_CACHE, IDEMPOTENCY_CACHE, req, webhooks>>

\* ValidateNonce that neither looks up nor records an absent X-Request-Id.
ValidateNonceSkipsEmpty(r) ==
    /\ run[r].pc = "v380"
    /\ LET nonce == NonceOf(req[r])
       IN  IF nonce = ""
           THEN /\ Goto(r, "v386")
                /\ UNCHANGED NONCE_CACHE
           ELSE IF nonce \in DOMAIN NONCE_CACHE
           THEN /\ Respond(r, make_error(401, "NONCE_REUSED"))
                /\ UNCHANGED NONCE_CACHE
           ELSE /\ NONCE_CACHE' = (nonce :> run[r].current_time) @@ NONCE_CACHE
                /\ Goto(r, "v386")
    /\ UNCHANGED <<now, REQUIRE_SIGNATURE, JOBS, JOB_LOCK, queue, wpc, wloc,
                   IDEMPOTENCY_CACHE, req, webhooks>>

\* lines 379-383: with NONCE_LOCK: the nonce is looked up and recorded.
ValidateNonce(r) ==
    /\ run[r].pc = "v380"
    /\ LET nonce == NonceOf(req[r])
       IN  IF nonce \in DOMAIN NONCE_CACHE
           THEN /\ Respond(r, make_error(401, "NONCE_REUSED"))
                /\ UNCHANGED NONCE_CACHE
           ELSE /\ NONCE_CACHE' = (nonce :> run[r].current_time) @@ NONCE_CACHE
                /\ Goto(r, "v386")
    /\ UNCHANGED <<now, REQUIRE_SIGNATURE, JOBS, JOB_LOCK, queue, wpc, wloc,
                   IDEMPOTENCY_CACHE, req, webhooks>>

\* lines 386-396: the signature the server expects for the request.
ExpectedSignature(request) ==
    SignatureHeader(Hmac(WEBHOOK_SECRET,
        Message(request.ts.n, request.method, "/jobs", request.body)))

\* ValidateSignature that compares nothing.
ValidateSignatureSkipped(r) ==
    /\ run[r].pc = "v386"
    /\ Goto(r, "p755")
    /\ UNCHANGED <<now, REQUIRE_SIGNATURE, JOBS, JOB_LOCK, queue, wpc, wloc,
                   NONCE_CACHE, IDEMPOTENCY_CACHE, req, webhooks>>

\* lines 398-401: hmac.compare_digest; on success the handler runs.
ValidateSignature(r) ==
    /\ run[r].pc = "v386"
    /\ IF Val(req[r].sig) # ExpectedSignature(req[r])
       THEN Respond(r, make_error(401, "INVALID_SIGNATURE"))
       ELSE Goto(r, "p755")
    /\ UNCHANGED <<now, REQUIRE_SIGNATURE, JOBS, JOB_LOCK, queue, wpc, wloc,
                   NONCE_CACHE, IDEMPOTENCY_CACHE, req, webhooks>>

(***************************************************************************)
(* POST /jobs: create_job_endpoint, check_idempotency, store_idempotency,  *)
(* create_job.                                                             *)
(***************************************************************************)
\* check_idempotency that never finds the key.
check_idempotencyMiss(cache, key, body) == [job_id |-> 0, conflict |-> ""]

\* check_idempotency that does not compare the body hashes.
check_idempotencyNoHash(cache, key, body) ==
    IF key = None THEN [job_id |-> 0, conflict |-> ""]
    ELSE IF Val(key) \in DOMAIN cache
    THEN [job_id |-> cache[Val(key)].job_id, conflict |-> ""]
    ELSE [job_id |-> 0, conflict |-> ""]

\* check_idempotency(key, body_data) -> (cached_job_id, conflict)
check_idempotency(cache, key, body) ==
    IF key = None THEN [job_id |-> 0, conflict |-> ""]
    ELSE IF Val(key) \in DOMAIN cache
    THEN IF cache[Val(key)].body_hash # Sha256(body)
         THEN [job_id |-> 0, conflict |-> "IDEMPOTENCY_VIOLATION"]
         ELSE [job_id |-> cache[Val(key)].job_id, conflict |-> ""]
    ELSE [job_id |-> 0, conflict |-> ""]

\* store_idempotency(key, job_id, body_data)
store_idempotency(cache, key, job_id, body) ==
    IF key = None THEN cache
    ELSE (Val(key) :> [job_id |-> job_id, body_hash |-> Sha256(body)]) @@ cache

\* lines 755-774: the idempotency check of a creation request.
PostCheckIdempotency(r) ==
    /\ run[r].pc = "p755"
    /\ LET found == check_idempotency(IDEMPOTENCY_CACHE, req[r].key, req[r].body)
       IN  IF found.conflict = "IDEMPOTENCY_VIOLATION"
           THEN Respond(r, make_error(409, "IDEMPOTENCY_VIOLATION"))
           ELSE IF found.job_id # 0
           THEN run' = [run EXCEPT ![r].pc = "p767", ![r].existing_job_id = found.job_id]
           ELSE Goto(r, "p776")
    /\ UNCHANGED <<now, REQUIRE_SIGNATURE, JOBS, JOB_LOCK, queue, wpc, wloc,
                   NONCE_CACHE, IDEMPOTENCY_CACHE, req, webhooks>>

\* lines 767-768: with JOB_LOCK: job = JOBS.get(existing_job_id, {}).
PostExistingLookup(r) ==
    /\ run[r].pc = "p767" /\ JOB_LOCK = Free
    /\ Goto(r, "p769")
    /\ UNCHANGED <<now, REQUIRE_SIGNATURE, JOBS, JOB_LOCK, queue, wpc, wloc,
                   NONCE_CACHE, IDEMPOTENCY_CACHE, req, webhooks>>

\* lines 769-774: the existing job is returned, its status read outside the lock.
PostExistingRespond(r) ==
    /\ run[r].pc = "p769"
    /\ LET j == run[r].existing_job_id
       IN  Respond(r, [NoResp EXCEPT
               !.code = 202, !.job_id = j, !.eta_s = 60,
               !.status = IF j \in DOMAIN JOBS THEN JOBS[j].status ELSE "unknown"])
    /\ UNCHANGED <<now, REQUIRE_SIGNATURE, JOBS, JOB_LOCK, queue, wpc, wloc,
                   NONCE_CACHE, IDEMPOTENCY_CACHE, req, webhooks>>

\* lines 776-826: what the request-level validation of the body answers:
\* "" when the request creates a job.
ValidateBody(body) ==
    IF body.shape = "multipart_nofile" THEN make_error(400, "NO_INPUT")
    ELSE IF body.shape = "multipart_large" THEN make_error(413, "PAYLOAD_TOO_LARGE")
    ELSE IF body.shape = "multipart" THEN NoResp
    ELSE IF body.shape \in {"none", "empty"} THEN make_error(400, "NO_INPUT")
    ELSE IF body.shape = "urls"
    THEN IF Len(body.items) = 0 THEN make_error(400, "INVALID_INPUT") ELSE NoResp
    ELSE IF body.shape = "urls_notlist" THEN make_error(400, "INVALID_INPUT")
    ELSE IF body.shape = "zip" THEN NoResp
    ELSE make_error(400, "INVALID_INPUT")

JobTypeOf(body) == IF body.shape = "urls" THEN "url_batch" ELSE "zip_batch"

\* PostCreate that inserts the job before it validates the body.
PostCreateUnvalidated(r) ==
    /\ run[r].pc = "p776"
    /\ JOB_LOCK = Free
    /\ JOBS' = (r :> NewJob(r, JobTypeOf(req[r].body),
                            [openable |-> req[r].body.openable,
                             items |-> req[r].body.items],
                            req[r].body.callback_url, req[r].body.ttl_h,
                            run[r].request_id, req[r].key)) @@ JOBS
    /\ IF ValidateBody(req[r].body) # NoResp
       THEN Respond(r, ValidateBody(req[r].body))
       ELSE run' = [run EXCEPT ![r].pc = "p187", ![r].job_id = r]
    /\ UNCHANGED <<now, REQUIRE_SIGNATURE, JOB_LOCK, queue, wpc, wloc,
                   NONCE_CACHE, IDEMPOTENCY_CACHE, req, webhooks>>

\* lines 776-826 and create_job lines 166-184: a valid request inserts its job,
\* status queued, under JOB_LOCK; the job id is fresh (one per request).
PostCreate(r) ==
    /\ run[r].pc = "p776"
    /\ IF ValidateBody(req[r].body) # NoResp
       THEN /\ Respond(r, ValidateBody(req[r].body))
            /\ UNCHANGED JOBS
       ELSE /\ JOB_LOCK = Free
            /\ JOBS' = (r :> NewJob(r, JobTypeOf(req[r].body),
                                    [openable |-> req[r].body.openable,
                                     items |-> req[r].body.items],
                                    req[r].body.callback_url, req[r].body.ttl_h,
                                    run[r].request_id, req[r].key)) @@ JOBS
            /\ run' = [run EXCEPT ![r].pc = "p187", ![r].job_id = r]
    /\ UNCHANGED <<now, REQUIRE_SIGNATURE, JOB_LOCK, queue, wpc, wloc,
                   NONCE_CACHE, IDEMPOTENCY_CACHE, req, webhooks>>

NewWorkerLocals ==
    [results |-> <<>>, i |-> 0, exc |-> "", download_url |-> None, cb_status |-> "",
     payload |-> NoPayload]

\* PostSubmit that submits process_job twice for the job.
PostSubmitTwice(r) ==
    /\ run[r].pc = "p187"
    /\ queue' = queue \o <<run[r].job_id, run[r].job_id>>
    /\ wpc' = (run[r].job_id :> "queued") @@ wpc
    /\ wloc' = (run[r].job_id :> NewWorkerLocals) @@ wloc
    /\ Goto(r, IF req[r].key # None THEN "p830" ELSE "p833")
    /\ UNCHANGED <<now, REQUIRE_SIGNATURE, JOBS, JOB_LOCK,
                   NONCE_CACHE, IDEMPOTENCY_CACHE, req, webhooks>>

\* create_job line 187: EXECUTOR.submit(process_job, job_id).
PostSubmit(r) ==
    /\ run[r].pc = "p187"
    /\ queue' = Append(queue, run[r].job_id)
    /\ wpc' = (run[r].job_id :> "queued") @@ wpc
    /\ wloc' = (run[r].job_id :> NewWorkerLocals) @@ wloc
    /\ Goto(r, IF req[r].key # None THEN "p830" ELSE "p833")
    /\ UNCHANGED <<now, REQUIRE_SIGNATURE, JOBS, JOB_LOCK,
                   NONCE_CACHE, IDEMPOTENCY_CACHE, req, webhooks>>

\* lines 829-830: store_idempotency(idempotency_key, job_id, body_data).
PostStoreIdempotency(r) ==
    /\ run[r].pc = "p830"
    /\ IDEMPOTENCY_CACHE' =
          store_idempotency(IDEMPOTENCY_CACHE, req[r].key, run[r].job_id, req[r].body)
    /\ Goto(r, "p833")
    /\ UNCHANGED <<now, REQUIRE_SIGNATURE, JOBS, JOB_LOCK, queue, wpc, wloc,
                   NONCE_CACHE, req, webhooks>>

\* lines 833-838: eta_s
Eta(job) ==
    IF job.type = "zip_batch" THEN EtaZip ELSE Len(job.data.items) * EtaPerUrl

\* lines 833-845: the ETA, read under JOB_LOCK, and the 202 response.
PostRespond(r) ==
    /\ run[r].pc = "p833" /\ JOB_LOCK = Free
    /\ Respond(r, [NoResp EXCEPT
           !.code = 202, !.job_id = run[r].job_id, !.status = "queued",
           !.eta_s = Min(Eta(JOBS[run[r].job_id]), EtaMax)])
    /\ UNCHANGED <<now, REQUIRE_SIGNATURE, JOBS, JOB_LOCK, queue, wpc, wloc,
                   NONCE_CACHE, IDEMPOTENCY_CACHE, req, webhooks>>

(***************************************************************************)
(* GET /jobs/<job_id>: get_job_status.  The handler takes a reference to   *)
(* the job dict under JOB_LOCK and reads its fields after releasing it.    *)
(***************************************************************************)
\* An ETag that hashes the status alone.
ETagStatusOnly(response) == <<"md5", response.status>>

\* hashlib.md5(response_json).hexdigest()[:8], taken as telling payloads apart.
ETag(response) == <<"md5", response>>

\* f'"{etag}"'
ETagHeader(etag) == <<"quoted", etag>>

TargetOf(r) == req[r].job_id

\* lines 854-858: with JOB_LOCK: job = JOBS.get(job_id).
GetLookup(r) ==
    /\ run[r].pc = "g854" /\ JOB_LOCK = Free
    /\ IF TargetOf(r) \notin DOMAIN JOBS
       THEN Respond(r, make_error(404, "JOB_NOT_FOUND"))
       ELSE Goto(r, "g861")
    /\ UNCHANGED <<now, REQUIRE_SIGNATURE, JOBS, JOB_LOCK, queue, wpc, wloc,
                   NONCE_CACHE, IDEMPOTENCY_CACHE, req, webhooks>>

\* lines 861-864: current_time, expires_at and the TTL test.
GetCheckTtl(r) ==
    /\ run[r].pc = "g861"
    /\ LET job == JOBS[TargetOf(r)]
           expires_at == job.created_at + job.ttl_h * SecondsPerHour
       IN  run' = [run EXCEPT ![r].current_time = now, ![r].expires_at = expires_at,
                              ![r].pc = IF now > expires_at THEN "g866" ELSE "g875"]
    /\ UNCHANGED <<now, REQUIRE_SIGNATURE, JOBS, JOB_LOCK, queue, wpc, wloc,
                   NONCE_CACHE, IDEMPOTENCY_CACHE, req, webhooks>>

\* lines 866-868: with JOB_LOCK: JOBS[job_id]["status"] = "expired".
GetSetExpired(r) ==
    /\ run[r].pc = "g866" /\ JOB_LOCK = Free
    /\ JOB_LOCK' = HandlerOf(r)
    /\ JOBS' = [JOBS EXCEPT ![TargetOf(r)].status = "expired"]
    /\ Goto(r, "g869")
    /\ UNCHANGED <<now, REQUIRE_SIGNATURE, queue, wpc, wloc,
                   NONCE_CACHE, IDEMPOTENCY_CACHE, req, webhooks>>

\* line 869: JOBS[job_id]["results"] = None.
GetClearResults(r) ==
    /\ run[r].pc = "g869"
    /\ JOBS' = [JOBS EXCEPT ![TargetOf(r)].results = None]
    /\ Goto(r, "g870")
    /\ UNCHANGED <<now, REQUIRE_SIGNATURE, JOB_LOCK, queue, wpc, wloc,
                   NONCE_CACHE, IDEMPOTENCY_CACHE, req, webhooks>>

\* GetClearDownloadUrl that answers without releasing JOB_LOCK.
GetClearDownloadUrlLocked(r) ==
    /\ run[r].pc = "g870"
    /\ JOBS' = [JOBS EXCEPT ![TargetOf(r)].download_url = None]
    /\ Respond(r, make_error(404, "EXPIRED_JOB"))
    /\ UNCHANGED <<now, REQUIRE_SIGNATURE, JOB_LOCK, queue, wpc, wloc,
                   NONCE_CACHE, IDEMPOTENCY_CACHE, req, webhooks>>

\* lines 870-871: JOBS[job_id]["download_url"] = None; the lock is released
\* and the request answered 404 EXPIRED_JOB.
GetClearDownloadUrl(r) ==
    /\ run[r].pc = "g870"
    /\ JOBS' = [JOBS EXCEPT ![TargetOf(r)].download_url = None]
    /\ JOB_LOCK' = Free
    /\ Respond(r, make_error(404, "EXPIRED_JOB"))
    /\ UNCHANGED <<now, REQUIRE_SIGNATURE, queue, wpc, wloc,
                   NONCE_CACHE, IDEMPOTENCY_CACHE, req, webhooks>>

\* lines 873-879: the response starts with the job's status.
GetReadStatus(r) ==
    /\ run[r].pc = "g875"
    /\ LET job == JOBS[TargetOf(r)]
       IN  run' = [run EXCEPT
               ![r].pc = "g881",
               ![r].response = [EmptyProjection EXCEPT
                   !.job_id = TargetOf(r), !.status = job.status,
                   !.request_id = job.request_id, !.created_at = job.created_at,
                   !.expires_at = run[r].expires_at]]
    /\ UNCHANGED <<now, REQUIRE_SIGNATURE, JOBS, JOB_LOCK, queue, wpc, wloc,
                   NONCE_CACHE, IDEMPOTENCY_CACHE, req, webhooks>>

\* lines 881-882: started_at, when set.
GetReadStartedAt(r) ==
    /\ run[r].pc = "g881"
    /\ run' = [run EXCEPT ![r].pc = "g883",
                          ![r].response.started_at = JOBS[TargetOf(r)].started_at]
    /\ UNCHANGED <<now, REQUIRE_SIGNATURE, JOBS, JOB_LOCK, queue, wpc, wloc,
                   NONCE_CACHE, IDEMPOTENCY_CACHE, req, webhooks>>

\* lines 883-884: finished_at, when set.
GetReadFinishedAt(r) ==
    /\ run[r].pc = "g883"
    /\ run' = [run EXCEPT ![r].pc = "g886",
                          ![r].response.finished_at = JOBS[TargetOf(r)].finished_at]
    /\ UNCHANGED <<now, REQUIRE_SIGNATURE, JOBS, JOB_LOCK, queue, wpc, wloc,
                   NONCE_CACHE, IDEMPOTENCY_CACHE, req, webhooks>>

\* line 886: if job["status"] == "processing".
GetTestProcessing(r) ==
    /\ run[r].pc = "g886"
    /\ Goto(r, IF JOBS[TargetOf(r)].status = "processing" THEN "g887" ELSE "g889")
    /\ UNCHANGED <<now, REQUIRE_SIGNATURE, JOBS, JOB_LOCK, queue, wpc, wloc,
                   NONCE_CACHE, IDEMPOTENCY_CACHE, req, webhooks>>

\* line 887: response["progress"] = job["progress"].
GetReadProgress(r) ==
    /\ run[r].pc = "g887"
    /\ run' = [run EXCEPT ![r].pc = "g901",
                          ![r].response.progress = Some(JOBS[TargetOf(r)].progress)]
    /\ UNCHANGED <<now, REQUIRE_SIGNATURE, JOBS, JOB_LOCK, queue, wpc, wloc,
                   NONCE_CACHE, IDEMPOTENCY_CACHE, req, webhooks>>

\* line 889: elif job["status"] == "completed".
GetTestCompleted(r) ==
    /\ run[r].pc = "g889"
    /\ Goto(r, IF JOBS[TargetOf(r)].status = "completed" THEN "g890" ELSE "g896")
    /\ UNCHANGED <<now, REQUIRE_SIGNATURE, JOBS, JOB_LOCK, queue, wpc, wloc,
                   NONCE_CACHE, IDEMPOTENCY_CACHE, req, webhooks>>

\* line 890: response["results"] = job["results"].
GetReadResults(r) ==
    /\ run[r].pc = "g890"
    /\ run' = [run EXCEPT ![r].pc = "g891",
                          ![r].response.results = JOBS[TargetOf(r)].results]
    /\ UNCHANGED <<now, REQUIRE_SIGNATURE, JOBS, JOB_LOCK, queue, wpc, wloc,
                   NONCE_CACHE, IDEMPOTENCY_CACHE, req, webhooks>>

\* line 891: response["results_count"] = len(job["results"]); len(None) raises
\* and line 929 answers 500 INTERNAL_ERROR.
GetReadResultsCount(r) ==
    /\ run[r].pc = "g891"
    /\ LET results == JOBS[TargetOf(r)].results
       IN  IF results = None
           THEN Respond(r, make_error(500, "INTERNAL_ERROR"))
           ELSE run' = [run EXCEPT ![r].pc = "g892",
                                   ![r].response.results_count = Some(Len(Val(results)))]
    /\ UNCHANGED <<now, REQUIRE_SIGNATURE, JOBS, JOB_LOCK, queue, wpc, wloc,
                   NONCE_CACHE, IDEMPOTENCY_CACHE, req, webhooks>>

\* line 892: if job.get("download_url").
GetTestDownloadUrl(r) ==
    /\ run[r].pc = "g892"
    /\ Goto(r, IF JOBS[TargetOf(r)].download_url # None THEN "g893" ELSE "g901")
    /\ UNCHANGED <<now, REQUIRE_SIGNATURE, JOBS, JOB_LOCK, queue, wpc, wloc,
                   NONCE_CACHE, IDEMPOTENCY_CACHE, req, webhooks>>

\* lines 893-894: download_url and download_expires_at = int(current_time + 3600).
GetReadDownloadUrl(r) ==
    /\ run[r].pc = "g893"
    /\ run' = [run EXCEPT
           ![r].pc = "g901",
           ![r].response.download_url = JOBS[TargetOf(r)].download_url,
           ![r].response.download_expires_at = run[r].current_time + DownloadTtl]
    /\ UNCHANGED <<now, REQUIRE_SIGNATURE, JOBS, JOB_LOCK, queue, wpc, wloc,
                   NONCE_CACHE, IDEMPOTENCY_CACHE, req, webhooks>>

\* line 896: elif job["status"] == "failed".
GetTestFailed(r) ==
    /\ run[r].pc = "g896"
    /\ Goto(r, IF JOBS[TargetOf(r)].status = "failed" THEN "g897" ELSE "g901")
    /\ UNCHANGED <<now, REQUIRE_SIGNATURE, JOBS, JOB_LOCK, queue, wpc, wloc,
                   NONCE_CACHE, IDEMPOTENCY_CACHE, req, webhooks>>

\* lines 897-898: response.update(job["error"]) and the user message;
\* update(None) raises and line 929 answers 500 INTERNAL_ERROR.
GetReadError(r) ==
    /\ run[r].pc = "g897"
    /\ LET error == JOBS[TargetOf(r)].error
       IN  IF error = None
           THEN Respond(r, make_error(500, "INTERNAL_ERROR"))
           ELSE run' = [run EXCEPT ![r].pc = "g901",
                                   ![r].response.error = error,
                                   ![r].response.user_message = Some(Val(error).message)]
    /\ UNCHANGED <<now, REQUIRE_SIGNATURE, JOBS, JOB_LOCK, queue, wpc, wloc,
                   NONCE_CACHE, IDEMPOTENCY_CACHE, req, webhooks>>

\* lines 873-898 on a job dict that does not change while it is read: the
\* payload a status poll at current_time builds.
Projection(job, current_time) ==
    LET base == [EmptyProjection EXCEPT
                   !.job_id = job.id, !.status = job.status,
                   !.request_id = job.request_id, !.created_at = job.created_at,
                   !.expires_at = job.created_at + job.ttl_h * SecondsPerHour,
                   !.started_at = job.started_at, !.finished_at = job.finished_at]
    IN  IF job.status = "processing"
        THEN [base EXCEPT !.progress = Some(job.progress)]
        ELSE IF job.status = "completed"
        THEN [base EXCEPT
                !.results = job.results,
                !.results_count = Some(Len(Val(job.results))),
                !.download_url = job.download_url,
                !.download_expires_at =
                    IF job.download_url # None THEN current_time + DownloadTtl ELSE 0]
        ELSE IF job.status = "failed"
        THEN [base EXCEPT !.error = job.error,
                          !.user_message = Some(Val(job.error).message)]
        ELSE base

\* line 905: request.headers.get('If-None-Match') == f'"{etag}"'
NotModified(request, etag) == request.inm = Some(ETagHeader(etag))

\* StatusResponse with the Retry-After hint left out of the 304.
StatusResponseNoHint(request, response, retry_after) ==
    IF NotModified(request, ETag(response))
    THEN [NoResp EXCEPT !.code = 304, !.etag = Some(ETagHeader(ETag(response)))]
    ELSE [NoResp EXCEPT !.code = 200, !.etag = Some(ETagHeader(ETag(response))),
                        !.body = Some(response), !.retry_after = retry_after]

\* lines 906-907 and 916-918: the 304 without a body, or the 200 with it.
StatusResponse(request, response, retry_after) ==
    IF NotModified(request, ETag(response))
    THEN [NoResp EXCEPT !.code = 304, !.etag = Some(ETagHeader(ETag(response))),
                        !.retry_after = retry_after]
    ELSE [NoResp EXCEPT !.code = 200, !.etag = Some(ETagHeader(ETag(response))),
                        !.body = Some(response), !.retry_after = retry_after]

\* lines 901-910 and 916-922: the ETag of the response, the If-None-Match test
\* and the first test of the Retry-After hint, job["status"] == "queued".
GetTestQueued(r) ==
    /\ run[r].pc = "g901"
    /\ IF JOBS[TargetOf(r)].status = "queued"
       THEN Respond(r, StatusResponse(req[r], run[r].response, RetryAfterQueued))
       ELSE run' = [run EXCEPT ![r].pc = "g911",
                               ![r].etag = Some(ETag(run[r].response))]
    /\ UNCHANGED <<now, REQUIRE_SIGNATURE, JOBS, JOB_LOCK, queue, wpc, wloc,
                   NONCE_CACHE, IDEMPOTENCY_CACHE, req, webhooks>>

\* lines 911-913 and 923-926: elif job["status"] == "processing", and the answer.
GetTestProcessingHint(r) ==
    /\ run[r].pc = "g911"
    /\ Respond(r, StatusResponse(req[r], run[r].response,
                    IF JOBS[TargetOf(r)].status = "processing"
                    THEN RetryAfterProcessing ELSE 0))
    /\ UNCHANGED <<now, REQUIRE_SIGNATURE, JOBS, JOB_LOCK, queue, wpc, wloc,
                   NONCE_CACHE, IDEMPOTENCY_CACHE, req, webhooks>>

\* time passes.
Tick ==
    /\ now < T0 + MaxTicks
    /\ now' = now + 1
    /\ UNCHANGED <<REQUIRE_SIGNATURE, JOBS, JOB_LOCK, queue, wpc, wloc,
                   NONCE_CACHE, IDEMPOTENCY_CACHE, req, run, webhooks>>

(***************************************************************************)
(* The job life-cycle: creation requests without Idempotency-Key, the      *)
(* worker pool and status polls, with signature enforcement off.           *)
(***************************************************************************)
Seqs(S, lo, hi) == UNION {[1..n -> S] : n \in lo..hi}

Outcomes == {"ok", "bad"}

TtlChoices == {0, 1}

\* The bodies of the creation requests: a non-empty list of URLs, or an
\* archive that cannot be opened or holds any number of image entries.
JobBodies ==
    {[shape |-> "urls", items |-> items, openable |-> TRUE,
      callback_url |-> None, ttl_h |-> ttl_h] :
        items \in Seqs(Outcomes, 1, MaxItems), ttl_h \in TtlChoices}
    \cup
    {[shape |-> "zip", items |-> items, openable |-> TRUE,
      callback_url |-> None, ttl_h |-> ttl_h] :
        items \in Seqs(Outcomes, 0, MaxItems), ttl_h \in TtlChoices}
    \cup
    {[shape |-> "zip", items |-> <<>>, openable |-> FALSE,
      callback_url |-> None, ttl_h |-> ttl_h] : ttl_h \in TtlChoices}

NoTs == [form |-> "missing", n |-> 0]

PostRequest(rid, ts, sig, key, body) ==
    [method |-> "POST", rid |-> rid, ts |-> ts, sig |-> sig, key |-> key,
     body |-> body, job_id |-> 0, inm |-> None]

GetRequest(job_id, inm) ==
    [method |-> "GET", rid |-> None, ts |-> NoTs, sig |-> None, key |-> None,
     body |-> NoBody, job_id |-> job_id, inm |-> inm]

\* The job ids a client knows: those a response has carried.
Disclosed == {run[r].resp.job_id : r \in {q \in Reqs : Done(q)}} \ {0}

JobArrivePost ==
    /\ Cardinality(Posts) < MaxPosts
    /\ \E body \in JobBodies : Arrive(PostRequest(None, NoTs, None, None, body))

\* The ETag header a poll of job j answered at this moment would carry, when
\* the job dict is not in the middle of a write-back.
HeldETags(j) ==
    IF /\ j \in DOMAIN JOBS
       /\ JOBS[j].status = "completed" => JOBS[j].results # None
       /\ JOBS[j].status = "failed" => JOBS[j].error # None
    THEN {Some(ETagHeader(ETag(Projection(JOBS[j], now))))}
    ELSE {}

\* A status poll of a job the client knows, or of an unknown id (0), without
\* If-None-Match or with the ETag the client has just been given.
JobArriveGet ==
    /\ Cardinality(Gets) < MaxGets
    /\ \E j \in Disclosed \cup {0} :
           \E inm \in HeldETags(j) \cup {None} : Arrive(GetRequest(j, inm))

Init ==
    /\ now = T0
    /\ REQUIRE_SIGNATURE = FALSE
    /\ JOBS = <<>>
    /\ JOB_LOCK = Free
    /\ queue = <<>>
    /\ wpc = <<>>
    /\ wloc = <<>>
    /\ NONCE_CACHE = <<>>
    /\ IDEMPOTENCY_CACHE = <<>>
    /\ req = <<>>
    /\ run = <<>>
    /\ webhooks = <<>>

Next ==
    \/ JobArrivePost
    \/ JobArriveGet
    \/ \E r \in Reqs : PostCheckIdempotency(r)
    \/ \E r \in Reqs : PostCreate(r)
    \/ \E r \in Reqs : PostSubmit(r)
    \/ \E r \in Reqs : PostRespond(r)
    \/ \E r \in Reqs : GetLookup(r)
    \/ \E r \in Reqs : GetCheckTtl(r)
    \/ \E r \in Reqs : GetSetExpired(r)
    \/ \E r \in Reqs : GetClearResults(r)
    \/ \E r \in Reqs : GetClearDownloadUrl(r)
    \/ \E r \in Reqs : GetReadStatus(r)
    \/ \E r \in Reqs : GetReadStartedAt(r)
    \/ \E r \in Reqs : GetReadFinishedAt(r)
    \/ \E r \in Reqs : GetTestProcessing(r)
    \/ \E r \in Reqs : GetReadProgress(r)
    \/ \E r \in Reqs : GetTestCompleted(r)
    \/ \E r \in Reqs : GetReadResults(r)
    \/ \E r \in Reqs : GetReadResultsCount(r)
    \/ \E r \in Reqs : GetTestDownloadUrl(r)
    \/ \E r \in Reqs : GetTestFailed(r)
    \/ \E r \in Reqs : GetReadError(r)
    \/ \E r \in Reqs : GetTestQueued(r)
    \/ \E r \in Reqs : GetTestProcessingHint(r)
    \/ \E j \in DOMAIN wpc : WorkerDequeue(j)
    \/ \E j \in DOMAIN wpc : WorkerSetProcessing(j)
    \/ \E j \in DOMAIN wpc : WorkerSetStartedAt(j)
    \/ \E j \in DOMAIN wpc : WorkerZip(j)
    \/ \E j \in DOMAIN wpc : WorkerZipProgress(j)
    \/ \E j \in DOMAIN wpc : WorkerUrlItem(j)
    \/ \E j \in DOMAIN wpc : WorkerSetCompleted(j)
    \/ \E j \in DOMAIN wpc : WorkerSetProgress100(j)
    \/ \E j \in DOMAIN wpc : WorkerSetFinishedAt(j)
    \/ \E j \in DOMAIN wpc : WorkerSetResults(j)
    \/ \E j \in DOMAIN wpc : WorkerSetDownloadUrl(j)
    \/ \E j \in DOMAIN wpc : WorkerSetFailed(j)
    \/ \E j \in DOMAIN wpc : WorkerSetFailedAt(j)
    \/ \E j \in DOMAIN wpc : WorkerSetError(j)
    \/ Tick

Spec == Init /\ [][Next]_vars

(***************************************************************************)
(* Polling: one short batch that expires at once (ttl_h = 0), polled by    *)
(* concurrent status requests.                                             *)
(***************************************************************************)
PollBodies ==
    {[shape |-> "urls", items |-> items, openable |-> TRUE,
      callback_url |-> None, ttl_h |-> 0] : items \in Seqs(Outcomes, 1, MaxPollItems)}
    \cup
    {[shape |-> "zip", items |-> items, openable |-> TRUE,
      callback_url |-> None, ttl_h |-> 0] : items \in Seqs(Outcomes, 0, MaxPollItems)}

PollArrivePost ==
    /\ Cardinality(Posts) < MaxPosts
    /\ \E body \in PollBodies : Arrive(PostRequest(None, NoTs, None, None, body))

PollArriveGet ==
    /\ Cardinality(Gets) < MaxPolls
    /\ \E j \in Disclosed : Arrive(GetRequest(j, None))

NextPoll ==
    \/ PollArrivePost
    \/ PollArriveGet
    \/ \E r \in Reqs : PostCheckIdempotency(r)
    \/ \E r \in Reqs : PostCreate(r)
    \/ \E r \in Reqs : PostSubmit(r)
    \/ \E r \in Reqs : PostRespond(r)
    \/ \E r \in Reqs : GetLookup(r)
    \/ \E r \in Reqs : GetCheckTtl(r)
    \/ \E r \in Reqs : GetSetExpired(r)
    \/ \E r \in Reqs : GetClearResults(r)
    \/ \E r \in Reqs : GetClearDownloadUrl(r)
    \/ \E r \in Reqs : GetReadStatus(r)
    \/ \E r \in Reqs : GetReadStartedAt(r)
    \/ \E r \in Reqs : GetReadFinishedAt(r)
    \/ \E r \in Reqs : GetTestProcessing(r)
    \/ \E r \in Reqs : GetReadProgress(r)
    \/ \E r \in Reqs : GetTestCompleted(r)
    \/ \E r \in Reqs : GetReadResults(r)
    \/ \E r \in Reqs : GetReadResultsCount(r)
    \/ \E r \in Reqs : GetTestDownloadUrl(r)
    \/ \E r \in Reqs : GetTestFailed(r)
    \/ \E r \in Reqs : GetReadError(r)
    \/ \E r \in Reqs : GetTestQueued(r)
    \/ \E r \in Reqs : GetTestProcessingHint(r)
    \/ \E j \in DOMAIN wpc : WorkerDequeue(j)
    \/ \E j \in DOMAIN wpc : WorkerSetProcessing(j)
    \/ \E j \in DOMAIN wpc : WorkerSetStartedAt(j)
    \/ \E j \in DOMAIN wpc : WorkerZip(j)
    \/ \E j \in DOMAIN wpc : WorkerZipProgress(j)
    \/ \E j \in DOMAIN wpc : WorkerUrlItem(j)
    \/ \E j \in DOMAIN wpc : WorkerSetCompleted(j)
    \/ \E j \in DOMAIN wpc : WorkerSetProgress100(j)
    \/ \E j \in DOMAIN wpc : WorkerSetFinishedAt(j)
    \/ \E j \in DOMAIN wpc : WorkerSetResults(j)
    \/ \E j \in DOMAIN wpc : WorkerSetDownloadUrl(j)
    \/ \E j \in DOMAIN wpc : WorkerSetFailed(j)
    \/ \E j \in DOMAIN wpc : WorkerSetFailedAt(j)
    \/ \E j \in DOMAIN wpc : WorkerSetError(j)
    \/ Tick

SpecPoll == Init /\ [][NextPoll]_vars

(***************************************************************************)
(* The Idempotency Ledger: concurrent creation requests, with and without  *)
(* Idempotency-Key, whose bodies are equal or differ.  No job is picked up *)
(* by the pool while the requests are handled.                             *)
(***************************************************************************)
MaxIdemPosts == 3   \* concurrent POST /jobs requests of a ledger run

IdemKeys == {None, Some("k1")}

\* Two valid bodies that differ, and a body without input.
IdemBodies ==
    {[shape |-> "urls", items |-> items, openable |-> TRUE,
      callback_url |-> None, ttl_h |-> DefaultTtlHours] :
        items \in {<<"ok">>, <<"ok", "ok">>}}
    \cup {[NoBody EXCEPT !.shape = "empty"]}

IdemArrivePost ==
    /\ Cardinality(Posts) < MaxIdemPosts
    /\ \E key \in IdemKeys :
           \E body \in IdemBodies : Arrive(PostRequest(None, NoTs, None, key, body))

NextIdem ==
    \/ IdemArrivePost
    \/ \E r \in Reqs : PostCheckIdempotency(r)
    \/ \E r \in Reqs : PostExistingLookup(r)
    \/ \E r \in Reqs : PostExistingRespond(r)
    \/ \E r \in Reqs : PostCreate(r)
    \/ \E r \in Reqs : PostSubmit(r)
    \/ \E r \in Reqs : PostStoreIdempotency(r)
    \/ \E r \in Reqs : PostRespond(r)

SpecIdem == Init /\ [][NextIdem]_vars

(***************************************************************************)
(* Signature enforcement: REQUIRE_SIGNATURE is "true" and signed creation  *)
(* requests arrive while the clock moves across the 300 s window, the      *)
(* periodic clean-up and the nonce TTL.                                    *)
(***************************************************************************)
MaxSigned == 2      \* concurrent signed POST /jobs requests

\* The instants the clock visits.
SigInstants ==
    {T0 + d : d \in {0, NONCE_TTL, NONCE_TTL + 1, NONCE_TTL + CleanupPeriod}}

\* X-Timestamp: absent, not a number, or a number around the window's edges,
\* in canonical form or zero-padded.
SigTimestamps ==
    {NoTs, [form |-> "junk", n |-> 0], [form |-> "padded", n |-> now]}
    \cup {TsText(now + d) : d \in {0 - (SignatureWindow + 1), 0, SignatureWindow}}

SigBody ==
    [shape |-> "urls", items |-> <<"ok">>, openable |-> TRUE,
     callback_url |-> None, ttl_h |-> DefaultTtlHours]

\* X-Signature: absent, computed by a client that holds the secret, or by one
\* that does not.
SigSignatures(ts) ==
    {None,
     Some(SignatureHeader(Hmac(WEBHOOK_SECRET, Message(ts.n, "POST", "/jobs", SigBody)))),
     Some(SignatureHeader(Hmac("guess", Message(ts.n, "POST", "/jobs", SigBody))))}

SigArrivePost ==
    /\ Cardinality(Posts) < MaxSigned
    /\ \E rid \in {None, Some("n1")} :
           \E ts \in SigTimestamps :
               \E sig \in SigSignatures(ts) :
                   Arrive(PostRequest(rid, ts, sig, None, SigBody))

\* time passes.
SigAdvance ==
    /\ \E t \in SigInstants : t > now /\ now' = t
    /\ UNCHANGED <<REQUIRE_SIGNATURE, JOBS, JOB_LOCK, queue, wpc, wloc,
                   NONCE_CACHE, IDEMPOTENCY_CACHE, req, run, webhooks>>

InitSig ==
    /\ now = T0
    /\ REQUIRE_SIGNATURE = TRUE
    /\ JOBS = <<>>
    /\ JOB_LOCK = Free
    /\ queue = <<>>
    /\ wpc = <<>>
    /\ wloc = <<>>
    /\ NONCE_CACHE = <<>>
    /\ IDEMPOTENCY_CACHE = <<>>
    /\ req = <<>>
    /\ run = <<>>
    /\ webhooks = <<>>

NextSig ==
    \/ SigArrivePost
    \/ SigAdvance
    \/ \E r \in Reqs : ValidateTimestamp(r)
    \/ \E r \in Reqs : ValidateNonce(r)
    \/ \E r \in Reqs : ValidateSignature(r)
    \/ \E r \in Reqs : PostCheckIdempotency(r)
    \/ \E r \in Reqs : PostCreate(r)
    \/ \E r \in Reqs : PostSubmit(r)
    \/ \E r \in Reqs : PostRespond(r)

SpecSig == InitSig /\ [][NextSig]_vars

(***************************************************************************)
(* Webhooks: one short batch, with or without callback_url, that expires   *)
(* at once (ttl_h = 0), its worker, its callback and one status poll.      *)
(***************************************************************************)
HookBodies ==
    {[body EXCEPT !.callback_url = callback_url] :
        body \in PollBodies, callback_url \in {None, Some("https://client/hook")}}

HookArrivePost ==
    /\ Cardinality(Posts) < MaxPosts
    /\ \E body \in HookBodies : Arrive(PostRequest(None, NoTs, None, None, body))

HookArriveGet ==
    /\ Cardinality(Gets) < MaxGets
    /\ \E j \in Disclosed : Arrive(GetRequest(j, None))

NextHook ==
    \/ HookArrivePost
    \/ HookArriveGet
    \/ \E r \in Reqs : PostCheckIdempotency(r)
    \/ \E r \in Reqs : PostCreate(r)
    \/ \E r \in Reqs : PostSubmit(r)
    \/ \E r \in Reqs : PostRespond(r)
    \/ \E r \in Reqs : GetLookup(r)
    \/ \E r \in Reqs : GetCheckTtl(r)
    \/ \E r \in Reqs : GetSetExpired(r)
    \/ \E r \in Reqs : GetClearResults(r)
    \/ \E r \in Reqs : GetClearDownloadUrl(r)
    \/ \E r \in Reqs : GetReadStatus(r)
    \/ \E r \in Reqs : GetReadStartedAt(r)
    \/ \E r \in Reqs : GetReadFinishedAt(r)
    \/ \E r \in Reqs : GetTestProcessing(r)
    \/ \E r \in Reqs : GetReadProgress(r)
    \/ \E r \in Reqs : GetTestCompleted(r)
    \/ \E r \in Reqs : GetReadResults(r)
    \/ \E r \in Reqs : GetReadResultsCount(r)
    \/ \E r \in Reqs : GetTestDownloadUrl(r)
    \/ \E r \in Reqs : GetTestFailed(r)
    \/ \E r \in Reqs : GetReadError(r)
    \/ \E r \in Reqs : GetTestQueued(r)
    \/ \E r \in Reqs : GetTestProcessingHint(r)
    \/ \E j \in DOMAIN wpc : WorkerDequeue(j)
    \/ \E j \in DOMAIN wpc : WorkerSetProcessing(j)
    \/ \E j \in DOMAIN wpc : WorkerSetStartedAt(j)
    \/ \E j \in DOMAIN wpc : WorkerZip(j)
    \/ \E j \in DOMAIN wpc : WorkerZipProgress(j)
    \/ \E j \in DOMAIN wpc : WorkerUrlItem(j)
    \/ \E j \in DOMAIN wpc : WorkerSetCompleted(j)
    \/ \E j \in DOMAIN wpc : WorkerSetProgress100(j)
    \/ \E j \in DOMAIN wpc : WorkerSetFinishedAt(j)
    \/ \E j \in DOMAIN wpc : WorkerSetResults(j)
    \/ \E j \in DOMAIN wpc : WorkerSetDownloadUrl(j)
    \/ \E j \in DOMAIN wpc : WorkerSetFailed(j)
    \/ \E j \in DOMAIN wpc : WorkerSetFailedAt(j)
    \/ \E j \in DOMAIN wpc : WorkerSetError(j)
    \/ \E j \in DOMAIN wpc : SendLookup(j)
    \/ \E j \in DOMAIN wpc : SendBuildPayload(j)
    \/ \E j \in DOMAIN wpc : SendReadResults(j)
    \/ \E j \in DOMAIN wpc : SendTestDownloadUrl(j)
    \/ \E j \in DOMAIN wpc : SendReadError(j)
    \/ \E j \in DOMAIN wpc : SendPost(j)
    \/ Tick

SpecHook == Init /\ [][NextHook]_vars

(***************************************************************************)
(* Conditional polling: one client polls a job that does not expire, one   *)
(* request after the other, and may send back the ETag it was given.       *)
(***************************************************************************)
MaxEtagGets == 2    \* successive GET /jobs/<id> requests of the polling client

EtagBodies == {body \in JobBodies : body.ttl_h = 1}

\* The ETag headers the responses for job j have carried.
KnownETags(j) ==
    {run[r].resp.etag : r \in {q \in Gets : Done(q) /\ req[q].job_id = j}} \ {None}

EtagArrivePost ==
    /\ Cardinality(Posts) < MaxPosts
    /\ \E body \in EtagBodies : Arrive(PostRequest(None, NoTs, None, None, body))

EtagArriveGet ==
    /\ Cardinality(Gets) < MaxEtagGets
    /\ \A q \in Gets : Done(q)
    /\ \E j \in Disclosed :
           \E inm \in KnownETags(j) \cup {None} : Arrive(GetRequest(j, inm))

NextEtag ==
    \/ EtagArrivePost
    \/ EtagArriveGet
    \/ \E r \in Reqs : PostCheckIdempotency(r)
    \/ \E r \in Reqs : PostCreate(r)
    \/ \E r \in Reqs : PostSubmit(r)
    \/ \E r \in Reqs : PostRespond(r)
    \/ \E r \in Reqs : GetLookup(r)
    \/ \E r \in Reqs : GetCheckTtl(r)
    \/ \E r \in Reqs : GetReadStatus(r)
    \/ \E r \in Reqs : GetReadStartedAt(r)
    \/ \E r \in Reqs : GetReadFinishedAt(r)
    \/ \E r \in Reqs : GetTestProcessing(r)
    \/ \E r \in Reqs : GetReadProgress(r)
    \/ \E r \in Reqs : GetTestCompleted(r)
    \/ \E r \in Reqs : GetReadResults(r)
    \/ \E r \in Reqs : GetReadResultsCount(r)
    \/ \E r \in Reqs : GetTestDownloadUrl(r)
    \/ \E r \in Reqs : GetTestFailed(r)
    \/ \E r \in Reqs : GetReadError(r)
    \/ \E r \in Reqs : GetTestQueued(r)
    \/ \E r \in Reqs : GetTestProcessingHint(r)
    \/ \E j \in DOMAIN wpc : WorkerDequeue(j)
    \/ \E j \in DOMAIN wpc : WorkerSetProcessing(j)
    \/ \E j \in DOMAIN wpc : WorkerSetStartedAt(j)
    \/ \E j \in DOMAIN wpc : WorkerZip(j)
    \/ \E j \in DOMAIN wpc : WorkerZipProgress(j)
    \/ \E j \in DOMAIN wpc : WorkerUrlItem(j)
    \/ \E j \in DOMAIN wpc : WorkerSetCompleted(j)
    \/ \E j \in DOMAIN wpc : WorkerSetProgress100(j)
    \/ \E j \in DOMAIN wpc : WorkerSetFinishedAt(j)
    \/ \E j \in DOMAIN wpc : WorkerSetResults(j)
    \/ \E j \in DOMAIN wpc : WorkerSetDownloadUrl(j)
    \/ \E j \in DOMAIN wpc : WorkerSetFailed(j)
    \/ \E j \in DOMAIN wpc : WorkerSetFailedAt(j)
    \/ \E j \in DOMAIN wpc : WorkerSetError(j)
    \/ Tick

SpecEtag == Init /\ [][NextEtag]_vars

(***************************************************************************)
(* The worker pool: more jobs than pool threads, each a short job (an      *)
(* archive that cannot be opened).                                         *)
(***************************************************************************)
MaxPoolPosts == 4   \* POST /jobs requests of a pool run

PoolBody ==
    [shape |-> "zip", items |-> <<>>, openable |-> FALSE,
     callback_url |-> None, ttl_h |-> DefaultTtlHours]

PoolArrivePost ==
    /\ Cardinality(Posts) < MaxPoolPosts
    /\ Arrive(PostRequest(None, NoTs, None, None, PoolBody))

NextPool ==
    \/ PoolArrivePost
    \/ \E r \in Reqs : PostCheckIdempotency(r)
    \/ \E r \in Reqs : PostCreate(r)
    \/ \E r \in Reqs : PostSubmit(r)
    \/ \E r \in Reqs : PostRespond(r)
    \/ \E j \in DOMAIN wpc : WorkerDequeue(j)
    \/ \E j \in DOMAIN wpc : WorkerSetProcessing(j)
    \/ \E j \in DOMAIN wpc : WorkerSetStartedAt(j)
    \/ \E j \in DOMAIN wpc : WorkerZip(j)
    \/ \E j \in DOMAIN wpc : WorkerSetFailed(j)
    \/ \E j \in DOMAIN wpc : WorkerSetFailedAt(j)
    \/ \E j \in DOMAIN wpc : WorkerSetError(j)

SpecPool == Init /\ [][NextPool]_vars

(***************************************************************************)
(* Rejections: creation requests of every shape the request-level          *)
(* validation tells apart, signed well, badly or not at all, with          *)
(* signature enforcement on or off.  No job is picked up by the pool.      *)
(***************************************************************************)
MaxRejectPosts == 2     \* concurrent POST /jobs requests of a rejection run

\* One valid body, and one body per way the validation of the body fails.
RejectBodies ==
    {[NoBody EXCEPT !.shape = "urls", !.items = <<"ok">>, !.openable = TRUE],
     [NoBody EXCEPT !.shape = "urls"],
     [NoBody EXCEPT !.shape = "urls_notlist"],
     [NoBody EXCEPT !.shape = "none"],
     [NoBody EXCEPT !.shape = "empty"],
     [NoBody EXCEPT !.shape = "other"],
     [NoBody EXCEPT !.shape = "multipart_nofile"],
     [NoBody EXCEPT !.shape = "multipart_large"]}

\* X-Signature of a request stamped ts with the given body: absent, computed
\* with the secret, or computed without it.
RejectSignatures(ts, body) ==
    {None,
     Some(SignatureHeader(Hmac(WEBHOOK_SECRET, Message(ts.n, "POST", "/jobs", body)))),
     Some(SignatureHeader(Hmac("guess", Message(ts.n, "POST", "/jobs", body))))}

RejectArrivePost ==
    /\ Cardinality(Posts) < MaxRejectPosts
    /\ \E rid \in {Some("n1"), Some("n2")} :
           \E body \in RejectBodies :
               \E sig \in RejectSignatures(TsText(now), body) :
                   \E key \in IdemKeys :
                       Arrive(PostRequest(rid, TsText(now), sig, key, body))

InitReject ==
    /\ now = T0
    /\ REQUIRE_SIGNATURE \in BOOLEAN
    /\ JOBS = <<>>
    /\ JOB_LOCK = Free
    /\ queue = <<>>
    /\ wpc = <<>>
    /\ wloc = <<>>
    /\ NONCE_CACHE = <<>>
    /\ IDEMPOTENCY_CACHE = <<>>
    /\ req = <<>>
    /\ run = <<>>
    /\ webhooks = <<>>

NextReject ==
    \/ RejectArrivePost
    \/ \E r \in Reqs : ValidateTimestamp(r)
    \/ \E r \in Reqs : ValidateNonce(r)
    \/ \E r \in Reqs : ValidateSignature(r)
    \/ \E r \in Reqs : PostCheckIdempotency(r)
    \/ \E r \in Reqs : PostExistingLookup(r)
    \/ \E r \in Reqs : PostExistingRespond(r)
    \/ \E r \in Reqs : PostCreate(r)
    \/ \E r \in Reqs : PostSubmit(r)
    \/ \E r \in Reqs : PostStoreIdempotency(r)
    \/ \E r \in Reqs : PostRespond(r)

SpecReject == InitReject /\ [][NextReject]_vars

(***************************************************************************)
(* Liveness: more jobs than the pool has threads, submitted one after the  *)
(* other, each past its TTL from the start (ttl_h = -1), with one status   *)
(* poll.  Every thread of the process that can take a step is eventually   *)
(* scheduled, and every external call returns.                             *)
(***************************************************************************)
MaxLivePosts == 4   \* POST /jobs requests of a liveness run

\* An archive that cannot be opened, with "ttl_h": -1.
LiveBodies ==
    {[shape |-> "zip", items |-> <<>>, openable |-> FALSE,
      callback_url |-> None, ttl_h |-> 0 - 1]}

\* The client sends a creation request once the earlier ones are answered.
LiveArrivePost ==
    /\ Cardinality(Posts) < MaxLivePosts
    /\ \A q \in Posts : Done(q)
    /\ \E body \in LiveBodies : Arrive(PostRequest(None, NoTs, None, None, body))

LiveArriveGet ==
    /\ Cardinality(Gets) < MaxGets
    /\ \E j \in Disclosed : Arrive(GetRequest(j, None))

\* The steps of the request handlers and of the pool's threads: creation,
\* the failure path of process_job and the expiry branch of get_job_status.
LiveSteps ==
    \/ \E r \in Reqs : PostCheckIdempotency(r)
    \/ \E r \in Reqs : PostCreate(r)
    \/ \E r \in Reqs : PostSubmit(r)
    \/ \E r \in Reqs : PostRespond(r)
    \/ \E r \in Reqs : GetLookup(r)
    \/ \E r \in Reqs : GetCheckTtl(r)
    \/ \E r \in Reqs : GetSetExpired(r)
    \/ \E r \in Reqs : GetClearResults(r)
    \/ \E r \in Reqs : GetClearDownloadUrl(r)
    \/ \E j \in DOMAIN wpc : WorkerDequeue(j)
    \/ \E j \in DOMAIN wpc : WorkerSetProcessing(j)
    \/ \E j \in DOMAIN wpc : WorkerSetStartedAt(j)
    \/ \E j \in DOMAIN wpc : WorkerZip(j)
    \/ \E j \in DOMAIN wpc : WorkerSetFailed(j)
    \/ \E j \in DOMAIN wpc : WorkerSetFailedAt(j)
    \/ \E j \in DOMAIN wpc : WorkerSetError(j)

NextLive ==
    \/ LiveArrivePost
    \/ LiveArriveGet
    \/ LiveSteps

SpecLive == Init /\ [][NextLive]_vars /\ WF_vars(LiveSteps)

(***************************************************************************)
(* Locks: signed creation requests with an Idempotency-Key and a           *)
(* callback_url, the worker, the webhook and a status poll of a job past   *)
(* its TTL: every block on JOB_LOCK, NONCE_LOCK and IDEMPOTENCY_LOCK is    *)
(* entered.  Every thread that can take a step is eventually scheduled,    *)
(* and every external call returns.                                        *)
(***************************************************************************)
MaxLockPosts == 2   \* concurrent POST /jobs requests of a locking run

LockBody ==
    [shape |-> "urls", items |-> <<"ok">>, openable |-> TRUE,
     callback_url |-> Some("https://client/hook"), ttl_h |-> 0 - 1]

\* A correctly signed request with Idempotency-Key k1; its X-Request-Id is
\* fresh or the one of an earlier request.
LockArrivePost ==
    /\ Cardinality(Posts) < MaxLockPosts
    /\ \E rid \in {Some("n1"), Some("n2")} :
           Arrive(PostRequest(rid, TsText(now),
               Some(SignatureHeader(Hmac(WEBHOOK_SECRET,
                        Message(now, "POST", "/jobs", LockBody)))),
               Some("k1"), LockBody))

LockArriveGet ==
    /\ Cardinality(Gets) < MaxGets
    /\ \E j \in Disclosed : Arrive(GetRequest(j, None))

\* The steps of the request handlers and of the pool's threads.
LockSteps ==
    \/ \E r \in Reqs : ValidateTimestamp(r)
    \/ \E r \in Reqs : ValidateNonce(r)
    \/ \E r \in Reqs : ValidateSignature(r)
    \/ \E r \in Reqs : PostCheckIdempotency(r)
    \/ \E r \in Reqs : PostExistingLookup(r)
    \/ \E r \in Reqs : PostExistingRespond(r)
    \/ \E r \in Reqs : PostCreate(r)
    \/ \E r \in Reqs : PostSubmit(r)
    \/ \E r \in Reqs : PostStoreIdempotency(r)
    \/ \E r \in Reqs : PostRespond(r)
    \/ \E r \in Reqs : GetLookup(r)
    \/ \E r \in Reqs : GetCheckTtl(r)
    \/ \E r \in Reqs : GetSetExpired(r)
    \/ \E r \in Reqs : GetClearResults(r)
    \/ \E r \in Reqs : GetClearDownloadUrl(r)
    \/ \E j \in DOMAIN wpc : WorkerDequeue(j)
    \/ \E j \in DOMAIN wpc : WorkerSetProcessing(j)
    \/ \E j \in DOMAIN wpc : WorkerSetStartedAt(j)
    \/ \E j \in DOMAIN wpc : WorkerUrlItem(j)
    \/ \E j \in DOMAIN wpc : WorkerSetCompleted(j)
    \/ \E j \in DOMAIN wpc : WorkerSetProgress100(j)
    \/ \E j \in DOMAIN wpc : WorkerSetFinishedAt(j)
    \/ \E j \in DOMAIN wpc : WorkerSetResults(j)
    \/ \E j \in DOMAIN wpc : WorkerSetDownloadUrl(j)
    \/ \E j \in DOMAIN wpc : SendLookup(j)
    \/ \E j \in DOMAIN wpc : SendBuildPayload(j)
    \/ \E j \in DOMAIN wpc : SendReadResults(j)
    \/ \E j \in DOMAIN wpc : SendTestDownloadUrl(j)
    \/ \E j \in DOMAIN wpc : SendPost(j)

NextLock ==
    \/ LockArrivePost
    \/ LockArriveGet
    \/ LockSteps

SpecLock == InitSig /\ [][NextLock]_vars /\ WF_vars(LockSteps)

(***************************************************************************)
(* Replays: REQUIRE_SIGNATURE is "true"; a client sends correctly signed   *)
(* requests stamped with the server's time or 300 s ahead of it, and any   *)
(* request seen on the wire is sent again, unchanged, at a later instant.  *)
(***************************************************************************)
MaxReplayPosts == 3     \* signed POST /jobs requests of a replay run

\* A request signed by the client at this instant.
FreshRequests ==
    {PostRequest(Some("n1"), TsText(now + d),
         Some(SignatureHeader(Hmac(WEBHOOK_SECRET,
                  Message(now + d, "POST", "/jobs", SigBody)))),
         None, SigBody) : d \in {0, SignatureWindow}}

\* The requests sent so far.
SentRequests == {req[q] : q \in Posts}

ReplayArrivePost ==
    /\ Cardinality(Posts) < MaxReplayPosts
    /\ \E request \in FreshRequests \cup SentRequests : Arrive(request)

NextReplay ==
    \/ ReplayArrivePost
    \/ SigAdvance
    \/ \E r \in Reqs : ValidateTimestamp(r)
    \/ \E r \in Reqs : ValidateNonce(r)
    \/ \E r \in Reqs : ValidateSignature(r)
    \/ \E r \in Reqs : PostCheckIdempotency(r)
    \/ \E r \in Reqs : PostCreate(r)
    \/ \E r \in Reqs : PostSubmit(r)
    \/ \E r \in Reqs : PostRespond(r)

SpecReplay == InitSig /\ [][NextReplay]_vars

(***************************************************************************)
(* Large batches: one url_batch of more than 5 URLs, all of which succeed, *)
(* so that the job gets a download_url; its webhook; and a client that     *)
(* polls the finished job twice, the second time with the ETag it holds,   *)
(* while the clock moves on.                                               *)
(***************************************************************************)
LargeBody ==
    [shape |-> "urls", items |-> [i \in 1..(LargeBatch + 1) |-> "ok"],
     openable |-> TRUE, callback_url |-> Some("https://client/hook"), ttl_h |-> 1]

LargeArrivePost ==
    /\ Cardinality(Posts) < MaxPosts
    /\ Arrive(PostRequest(None, NoTs, None, None, LargeBody))

\* A poll of a job whose process_job call has returned, sent once the
\* earlier polls are answered.
LargeArriveGet ==
    /\ Cardinality(Gets) < MaxEtagGets
    /\ \A q \in Gets : Done(q)
    /\ \E j \in Disclosed :
           /\ j \in DOMAIN wpc /\ wpc[j] = "done"
           /\ \E inm \in KnownETags(j) \cup {None} : Arrive(GetRequest(j, inm))

NextLarge ==
    \/ LargeArrivePost
    \/ LargeArriveGet
    \/ \E r \in Reqs : PostCheckIdempotency(r)
    \/ \E r \in Reqs : PostCreate(r)
    \/ \E r \in Reqs : PostSubmit(r)
    \/ \E r \in Reqs : PostRespond(r)
    \/ \E r \in Reqs : GetLookup(r)
    \/ \E r \in Reqs : GetCheckTtl(r)
    \/ \E r \in Reqs : GetReadStatus(r)
    \/ \E r \in Reqs : GetReadStartedAt(r)
    \/ \E r \in Reqs : GetReadFinishedAt(r)
    \/ \E r \in Reqs : GetTestProcessing(r)
    \/ \E r \in Reqs : GetTestCompleted(r)
    \/ \E r \in Reqs : GetReadResults(r)
    \/ \E r \in Reqs : GetReadResultsCount(r)
    \/ \E r \in Reqs : GetTestDownloadUrl(r)
    \/ \E r \in Reqs : GetReadDownloadUrl(r)
    \/ \E r \in Reqs : GetTestQueued(r)
    \/ \E r \in Reqs : GetTestProcessingHint(r)
    \/ \E j \in DOMAIN wpc : WorkerDequeue(j)
    \/ \E j \in DOMAIN wpc : WorkerSetProcessing(j)
    \/ \E j \in DOMAIN wpc : WorkerSetStartedAt(j)
    \/ \E j \in DOMAIN wpc : WorkerUrlItem(j)
    \/ \E j \in DOMAIN wpc : WorkerSetCompleted(j)
    \/ \E j \in DOMAIN wpc : WorkerSetProgress100(j)
    \/ \E j \in DOMAIN wpc : WorkerSetFinishedAt(j)
    \/ \E j \in DOMAIN wpc : WorkerSetResults(j)
    \/ \E j \in DOMAIN wpc : WorkerSetDownloadUrl(j)
    \/ \E j \in DOMAIN wpc : SendLookup(j)
    \/ \E j \in DOMAIN wpc : SendBuildPayload(j)
    \/ \E j \in DOMAIN wpc : SendReadResults(j)
    \/ \E j \in DOMAIN wpc : SendTestDownloadUrl(j)
    \/ \E j \in DOMAIN wpc : SendReadDownloadUrl(j)
    \/ \E j \in DOMAIN wpc : SendPost(j)
    \/ Tick

SpecLarge == Init /\ [][NextLarge]_vars

(***************************************************************************)
(* Properties of the job life-cycle.                                       *)
(***************************************************************************)
Statuses == {"queued", "processing", "completed", "failed", "expired"}

AllowedTransitions ==
    {<<"queued", "processing">>, <<"processing", "completed">>,
     <<"processing", "failed">>} \cup {<<s, "expired">> : s \in Statuses}

\* C1: every change of a job's stored status is queued->processing,
\* processing->completed, processing->failed or (any)->expired; no job leaves
\* expired.
C1_StatusTransitions ==
    [][\A j \in DOMAIN JOBS :
          JOBS'[j].status # JOBS[j].status
              => <<JOBS[j].status, JOBS'[j].status>> \in AllowedTransitions]_vars

\* C2 as stated: for every job, progress = 100 if and only if status = completed.
C2_ProgressIffCompleted ==
    \A j \in DOMAIN JOBS : (JOBS[j].progress = 100) <=> (JOBS[j].status = "completed")

\* C2 as amended: a job whose status is completed has progress = 100.
C2_CompletedHasFullProgress ==
    \A j \in DOMAIN JOBS : JOBS[j].status = "completed" => JOBS[j].progress = 100

\* C2: a batch of two items has been completed.
C2_Witness ==
    \E j \in DOMAIN JOBS :
        /\ JOBS[j].status = "completed" /\ JOBS[j].progress = 100
        /\ wpc[j] = "done" /\ wloc[j].i = 2

ExpiredReadOf(j) ==
    \E q \in Gets : /\ Done(q) /\ req[q].job_id = j
                    /\ run[q].resp.error_code = "EXPIRED_JOB"

\* C9: a GET that reads the clock past created_at + ttl_h*3600 answers 404
\* EXPIRED_JOB, and once such a read has been answered no request reads the
\* job's results out of the Job Store any more.
C9_ExpiredStaysHidden ==
    /\ [](\A r \in Gets :
             Done(r) /\ run[r].current_time > run[r].expires_at
                 /\ run[r].current_time # 0
                 => run[r].resp.code = 404 /\ run[r].resp.error_code = "EXPIRED_JOB")
    /\ [][\A r \in Gets :
             run[r].pc = "g890" /\ run'[r].pc = "g891"
                 /\ JOBS[TargetOf(r)].results # None
                 => ~ExpiredReadOf(TargetOf(r))]_vars

\* The step of get_job_status that answers a poll of a known, unexpired job.
Answers(r) == run[r].pc \in {"g901", "g911"} /\ run'[r].pc = "done"

\* C10: a poll whose If-None-Match equals the ETag of the payload it has built
\* is answered 304 with no body and with that ETag, and with Retry-After 2 when
\* the stored status is queued, 5 when it is processing.
C10_NotModified ==
    [][\A r \in Gets :
          Answers(r) /\ NotModified(req[r], ETag(run[r].response))
              => /\ run'[r].resp.code = 304
                 /\ run'[r].resp.body = None
                 /\ run'[r].resp.etag = Some(ETagHeader(ETag(run[r].response)))
                 /\ JOBS[TargetOf(r)].status = "queued"
                       => run'[r].resp.retry_after = RetryAfterQueued
                 /\ JOBS[TargetOf(r)].status = "processing"
                       => run'[r].resp.retry_after = RetryAfterProcessing]_vars

\* C10: a poll of a processing job has been answered 304 with Retry-After 5.
C10_Witness ==
    \E r \in Gets :
        /\ Done(r) /\ run[r].resp.code = 304 /\ run[r].resp.body = None
        /\ run[r].resp.retry_after = RetryAfterProcessing
        /\ run[r].response.status = "processing"

(***************************************************************************)
(* Properties of the Idempotency Ledger.                                   *)
(***************************************************************************)
\* The key of request r is recorded with the hash of r's body.
Hit(r) ==
    /\ req[r].key # None
    /\ Val(req[r].key) \in DOMAIN IDEMPOTENCY_CACHE
    /\ IDEMPOTENCY_CACHE[Val(req[r].key)].body_hash = Sha256(req[r].body)

\* The key of request r is recorded with the hash of another body.
Conflict(r) ==
    /\ req[r].key # None
    /\ Val(req[r].key) \in DOMAIN IDEMPOTENCY_CACHE
    /\ IDEMPOTENCY_CACHE[Val(req[r].key)].body_hash # Sha256(req[r].body)

\* Request r takes a step from position pc of its handler.
Leaves(r, pc) == run[r].pc = pc /\ run'[r].pc # pc

\* C4: creation requests that carry the same Idempotency-Key and the same
\* body insert one job between them, and those answered 202 all carry its id.
C4_OneJobPerKey ==
    \A r1 \in Posts : \A r2 \in Posts :
        /\ req[r1].key # None /\ req[r1].key = req[r2].key
        /\ req[r1].body = req[r2].body
        => /\ r1 \in DOMAIN JOBS /\ r2 \in DOMAIN JOBS => r1 = r2
           /\ Done(r1) /\ Done(r2) /\ run[r1].resp.code = 202 /\ run[r2].resp.code = 202
                 => run[r1].resp.job_id = run[r2].resp.job_id

\* C5: a creation request that finds its key recorded with the same body hash
\* is answered 202 with the recorded job id, and none of its steps changes
\* the set of jobs or the worker queue.
C5_RetransmissionReturnsExisting ==
    [][\A r \in Posts :
          /\ Leaves(r, "p755") /\ Hit(r)
                => /\ run'[r].pc = "p767"
                   /\ run'[r].existing_job_id = IDEMPOTENCY_CACHE[Val(req[r].key)].job_id
                   /\ JOBS' = JOBS /\ queue' = queue
          /\ Leaves(r, "p767")
                => /\ run'[r].pc = "p769"
                   /\ run'[r].existing_job_id = run[r].existing_job_id
                   /\ JOBS' = JOBS /\ queue' = queue
          /\ Leaves(r, "p769")
                => /\ run'[r].pc = "done"
                   /\ run'[r].resp.code = 202
                   /\ run'[r].resp.job_id = run[r].existing_job_id
                   /\ run'[r].job_id = 0 /\ r \notin DOMAIN JOBS'
                   /\ JOBS' = JOBS /\ queue' = queue]_vars

\* C5: a retransmission has been answered with the id of the existing job.
C5_Witness ==
    \E r \in Posts :
        /\ Done(r) /\ run[r].existing_job_id # 0 /\ run[r].resp.code = 202
        /\ run[r].resp.job_id = run[r].existing_job_id
        /\ run[r].existing_job_id \in DOMAIN JOBS /\ r \notin DOMAIN JOBS

\* C6: a creation request that finds its key recorded with a different body
\* hash is answered 409 IDEMPOTENCY_VIOLATION, creates no job and leaves the
\* ledger as it is.
C6_KeyReuseConflicts ==
    [][\A r \in Posts :
          Leaves(r, "p755") /\ Conflict(r)
              => /\ run'[r].pc = "done"
                 /\ run'[r].resp.code = 409
                 /\ run'[r].resp.error_code = "IDEMPOTENCY_VIOLATION"
                 /\ run'[r].job_id = 0 /\ r \notin DOMAIN JOBS'
                 /\ JOBS' = JOBS /\ queue' = queue
                 /\ IDEMPOTENCY_CACHE' = IDEMPOTENCY_CACHE]_vars

\* C6: a request has been answered 409 while the key stays with the other body.
C6_Witness ==
    \E r \in Posts :
        /\ Done(r) /\ run[r].resp.code = 409 /\ Conflict(r)
        /\ r \notin DOMAIN JOBS
        /\ IDEMPOTENCY_CACHE[Val(req[r].key)].job_id \in DOMAIN JOBS

(***************************************************************************)
(* Properties of signature enforcement.                                    *)
(***************************************************************************)
RejectedBeforeNonce ==
    {"MISSING_SIGNATURE", "INVALID_TIMESTAMP", "TIMESTAMP_OUT_OF_RANGE", "NONCE_REUSED"}

\* Request q has put its nonce in the Nonce Store (line 383).
RecordedNonce(q) ==
    /\ run[q].pc \notin {"v364", "v380"}
    /\ ~(Done(q) /\ run[q].resp.error_code \in RejectedBeforeNonce)

\* C7: a signed request whose nonce another request has recorded within the
\* last NONCE_TTL seconds, finished or still being validated, is rejected
\* NONCE_REUSED: of the requests that bear one nonce and are processed
\* together, at most one passes validate_request_signature.
C7_ReplayRejected ==
    [][\A r \in Posts :
          /\ Leaves(r, "v380")
          /\ \E q \in Posts \ {r} :
                 /\ NonceOf(req[q]) = NonceOf(req[r])
                 /\ RecordedNonce(q)
                 /\ now - run[q].current_time <= NONCE_TTL
          => /\ run'[r].pc = "done"
             /\ run'[r].resp.code = 401
             /\ run'[r].resp.error_code = "NONCE_REUSED"]_vars

\* C7: a replay is rejected while the original is still being validated.
C7_Witness ==
    \E r \in Posts : \E q \in Posts :
        /\ r # q /\ req[r].rid # None /\ req[r] = req[q]
        /\ run[q].pc = "v386"
        /\ Done(r) /\ run[r].resp.error_code = "NONCE_REUSED"

\* validate_request_signature has returned Ok for request r: its handler runs
\* or has answered.
Accepted(r) ==
    \/ run[r].pc \in {"p755", "p767", "p769", "p776", "p187", "p830", "p833"}
    \/ Done(r) /\ run[r].resp.code # 401

SignatureOk(r) ==
    /\ req[r].ts.form # "missing" /\ req[r].sig # None
    /\ Parses(req[r].ts)
    /\ Abs(run[r].current_time - req[r].ts.n) <= SignatureWindow
    /\ Val(req[r].sig) = ExpectedSignature(req[r])

\* C8: the handler of a signed request runs only if the timestamp is present
\* and parses, lies within 300 s of the server's clock, the nonce was not in
\* the Nonce Store when it was looked up, and the signature is the expected
\* HMAC; every other request is answered 401 and creates no job.
C8_OkOnlyIfValid ==
    /\ [](\A r \in Posts :
             /\ Accepted(r) => SignatureOk(r)
             /\ Done(r) /\ ~SignatureOk(r)
                   => /\ run[r].resp.code = 401
                      /\ run[r].resp.error_code \in
                             RejectedBeforeNonce \cup {"INVALID_SIGNATURE"}
                      /\ run[r].job_id = 0 /\ r \notin DOMAIN JOBS)
    /\ [][\A r \in Posts :
             Leaves(r, "v380")
                 => IF NonceOf(req[r]) \in DOMAIN NONCE_CACHE
                    THEN /\ run'[r].pc = "done"
                         /\ run'[r].resp.error_code = "NONCE_REUSED"
                         /\ r \notin DOMAIN JOBS'
                    ELSE run'[r].pc = "v386"]_vars

\* C8: a request stamped at the edge of the window has passed the validation
\* and created its job.
C8_Witness ==
    \E r \in Posts :
        /\ REQUIRE_SIGNATURE /\ Done(r) /\ run[r].resp.code = 202
        /\ r \in DOMAIN JOBS /\ SignatureOk(r)
        /\ Abs(run[r].current_time - req[r].ts.n) = SignatureWindow

(***************************************************************************)
(* Properties of the webhook notifier.                                     *)
(***************************************************************************)
\* The POSTs send_callback has made for job j.
WebhooksOf(j) == {k \in 1..Len(webhooks) : webhooks[k].request.payload.job_id = j}

Sending == {"s283", "s286", "s297", "s298", "s299", "s301", "s304"}

\* C13: a job without callback_url causes no POST; a job with one causes at
\* most one, and exactly one, signed and carrying the terminal status the
\* worker stored, once its process_job call has returned.
C13_ExactlyOneWebhook ==
    \A j \in DOMAIN wpc :
        /\ JOBS[j].callback_url = None => WebhooksOf(j) = {}
        /\ Cardinality(WebhooksOf(j)) <= 1
        /\ JOBS[j].callback_url # None /\ wpc[j] = "done"
              => \E k \in WebhooksOf(j) :
                     /\ webhooks[k].request.url = Val(JOBS[j].callback_url)
                     /\ webhooks[k].request.payload.status = wloc[j].cb_status
                     /\ webhooks[k].request.signature =
                            SignatureHeader(Hmac(WEBHOOK_SECRET,
                                                 webhooks[k].request.payload))

\* C14: no step of send_callback writes the Job Store, whatever the delivery
\* answers, and a job is never notified twice.
C14_DeliveryLeavesJobAlone ==
    /\ [](\A j \in DOMAIN wpc : Cardinality(WebhooksOf(j)) <= 1)
    /\ [][\A j \in DOMAIN wpc :
             wpc[j] \in Sending /\ wpc'[j] # wpc[j] => JOBS' = JOBS]_vars

\* C14: a delivery has timed out and the job keeps its terminal status.
C14_Witness ==
    \E j \in DOMAIN wpc : \E k \in WebhooksOf(j) :
        /\ webhooks[k].delivery = "raised" /\ wpc[j] = "done"
        /\ JOBS[j].status = "failed" /\ JOBS[j].error # None

(***************************************************************************)
(* Properties of conditional polling and of the Retry-After hint.          *)
(***************************************************************************)
\* Request r has been answered with a status payload or with 304.
Polled(r) == Done(r) /\ run[r].resp.code \in {200, 304}

\* C11: when a poll sends back the ETag of an earlier poll of the job and the
\* status or the progress it reports differs from what the earlier poll
\* reported, it is answered 200 with the full body and another ETag.
C11_MutationChangesETag ==
    \A r1 \in Gets : \A r2 \in Gets :
        /\ r1 < r2 /\ Polled(r1) /\ Polled(r2) /\ req[r1].job_id = req[r2].job_id
        /\ req[r2].inm = run[r1].resp.etag
        /\ \/ run[r1].response.status # run[r2].response.status
           \/ run[r1].response.progress # run[r2].response.progress
        => /\ run[r2].resp.code = 200
           /\ run[r2].resp.body = Some(run[r2].response)
           /\ run[r2].resp.etag # run[r1].resp.etag

\* C11: two polls of a processing job, the second with the first's ETag, have
\* reported different progress.
C11_Witness ==
    \E r1 \in Gets : \E r2 \in Gets :
        /\ r1 < r2 /\ Polled(r1) /\ Polled(r2)
        /\ req[r2].inm = run[r1].resp.etag
        /\ run[r1].response.status = "processing"
        /\ run[r2].response.status = "processing"
        /\ run[r1].response.progress # run[r2].response.progress
        /\ run[r2].resp.code = 200

\* C12: a poll answered 200 or 304 carries Retry-After 2 when the status it
\* reports is queued, 5 when it is processing, and no Retry-After when it is
\* completed or failed.
C12_RetryAfterByReportedStatus ==
    \A r \in Gets :
        Polled(r)
            => /\ run[r].response.status = "queued"
                     => run[r].resp.retry_after = RetryAfterQueued
               /\ run[r].response.status = "processing"
                     => run[r].resp.retry_after = RetryAfterProcessing
               /\ run[r].response.status \in {"completed", "failed"}
                     => run[r].resp.retry_after = 0

(***************************************************************************)
(* Properties of batch outcomes.                                           *)
(***************************************************************************)
\* The items of job j that are processed successfully.
Succeeded(j) == OkIndices(JOBS[j].data.items)

\* The worker of job j has stored a terminal status.
WrittenBack(j) == wloc[j].cb_status # ""

\* C15: the status the worker stores is completed when at least one item of
\* the batch succeeded and failed when none did.
C15_FailedWhenNothingSucceeded ==
    \A j \in DOMAIN wpc :
        WrittenBack(j)
            => /\ JOBS[j].data.openable /\ Succeeded(j) # <<>>
                     => wloc[j].cb_status = "completed"
               /\ Succeeded(j) = <<>> => wloc[j].cb_status = "failed"

\* The archive of job j cannot be opened or yields no image.
BadArchive(j) ==
    /\ JOBS[j].type = "zip_batch"
    /\ ~JOBS[j].data.openable \/ Succeeded(j) = <<>>

\* C16: the worker of a zip_batch job whose archive cannot be opened or holds
\* no valid image never takes the completion path, and ends its write-back
\* with status failed, error_code PROCESSING_ERROR, finished_at set and
\* results unset.
C16_BadArchiveFails ==
    /\ [](\A j \in DOMAIN wpc :
             BadArchive(j)
                 => /\ wpc[j] \notin {"w215", "w250", "w251", "w252", "w253", "w254"}
                    /\ JOBS[j].results = None
                    /\ WrittenBack(j)
                          => /\ wloc[j].cb_status = "failed"
                             /\ JOBS[j].error # None
                             /\ Val(JOBS[j].error).error_code = "PROCESSING_ERROR"
                             /\ JOBS[j].finished_at # 0)
    /\ [][\A j \in DOMAIN wpc :
             BadArchive(j) /\ wpc[j] = "w268" /\ wpc'[j] # "w268"
                 => /\ JOBS'[j].status = "failed"
                    /\ Val(JOBS'[j].error).error_code = "PROCESSING_ERROR"
                    /\ JOBS'[j].finished_at # 0
                    /\ JOBS'[j].results = None]_vars

\* C16: an archive without images has failed.
C16_Witness ==
    \E j \in DOMAIN wpc :
        /\ BadArchive(j) /\ JOBS[j].data.openable /\ wpc[j] = "done"
        /\ JOBS[j].status = "failed" /\ JOBS[j].finished_at # 0
        /\ Val(JOBS[j].error).error_code = "PROCESSING_ERROR"

\* C17: the worker of a url_batch job never takes the failure path, and ends
\* its write-back with status completed, progress 100 and results holding
\* exactly the URLs that succeeded, in input order.
C17_ResultsInInputOrder ==
    /\ [](\A j \in DOMAIN wpc :
             JOBS[j].type = "url_batch"
                 => /\ wpc[j] \notin {"w265", "w267", "w268"}
                    /\ JOBS[j].results # None => Val(JOBS[j].results) = Succeeded(j))
    /\ [][\A j \in DOMAIN wpc :
             JOBS[j].type = "url_batch" /\ wpc[j] = "w254" /\ wpc'[j] # "w254"
                 => /\ JOBS'[j].status = "completed"
                    /\ JOBS'[j].progress = 100
                    /\ JOBS'[j].results = Some(Succeeded(j))]_vars

\* C17: a batch of two good URLs has completed with both results, in order.
C17_Witness ==
    \E j \in DOMAIN wpc :
        /\ JOBS[j].type = "url_batch" /\ JOBS[j].data.items = <<"ok", "ok">>
        /\ wpc[j] = "done" /\ JOBS[j].status = "completed"
        /\ JOBS[j].progress = 100 /\ JOBS[j].results = Some(<<1, 2>>)

\* C18: a stored status of completed, failed or expired never changes.
C18_TerminalAbsorbing ==
    [][\A j \in DOMAIN JOBS :
          JOBS[j].status \in {"completed", "failed", "expired"}
              => JOBS'[j].status = JOBS[j].status]_vars

\* C19: a status read that has seen status completed reads results that are
\* set, one that has seen failed reads an error that is set, and no status
\* read is answered 500.
C19_ConsistentSnapshot ==
    /\ [](\A r \in Gets : Done(r) => run[r].resp.code # 500)
    /\ [][\A r \in Gets :
             /\ Leaves(r, "g890") => JOBS[TargetOf(r)].results # None
             /\ Leaves(r, "g897") => JOBS[TargetOf(r)].error # None]_vars

(***************************************************************************)
(* Properties of the worker pool.                                          *)
(***************************************************************************)
\* The jobs submitted to the pool that no thread has picked up.
Waiting == {j \in DOMAIN wpc : wpc[j] = "queued"}

C23_ProgressMonotone ==
    /\ [](\A j \in DOMAIN JOBS : JOBS[j].progress \in 0..100)
    /\ [][\A j \in DOMAIN JOBS : JOBS'[j].progress >= JOBS[j].progress]_vars

\* C23: a batch of two items has gone through progress 50 and completed at 100.
C23_Witness ==
    \E j \in DOMAIN wpc :
        /\ Len(JOBS[j].data.items) = 2 /\ wloc[j].i = 2
        /\ wloc[j].cb_status = "completed" /\ JOBS[j].progress = 100

\* The items of job j's batch that its worker has attempted: the URLs fetched
\* so far, or every entry of the archive once process_zip_file has returned.
ItemsAttempted(j) ==
    IF JOBS[j].type = "url_batch"
    THEN wloc[j].i
    ELSE IF wpc[j] \in {"queued", "w195", "w200", "w209"}
         THEN 0
         ELSE Len(JOBS[j].data.items)

\* C24: while a worker runs the batch of a job, the job's progress is
\* floor(items attempted / items of the batch * 100).
C24_ProgressTracksItems ==
    \A j \in DOMAIN wpc :
        wpc[j] \in {"w209", "w215", "w224"} /\ Len(JOBS[j].data.items) > 0
            => JOBS[j].progress
                   = (ItemsAttempted(j) * 100) \div Len(JOBS[j].data.items)

(***************************************************************************)
(* Properties of batch preconditions and of expiry.                        *)
(***************************************************************************)
\* C29: no job whose archive cannot be opened, or whose URL list is empty, is
\* in the Job Store.
C29_PreconditionBeforeInsert ==
    \A j \in DOMAIN JOBS :
        /\ ~(JOBS[j].type = "zip_batch" /\ ~JOBS[j].data.openable)
        /\ ~(JOBS[j].type = "url_batch" /\ JOBS[j].data.items = <<>>)

\* The data field of job j holds no payload.
PayloadCleared(j) == DOMAIN JOBS[j].data = {}

\* C30: once a status read of a job has answered EXPIRED_JOB, the job's stored
\* results and its stored payload are cleared.
C30_ExpiryClearsResultsAndPayload ==
    \A j \in DOMAIN JOBS :
        ExpiredReadOf(j) => JOBS[j].results = None /\ PayloadCleared(j)

(***************************************************************************)
(* Properties of the Nonce Store and of the ledger's records.              *)
(***************************************************************************)
\* C26: every nonce in the Nonce Store was recorded by a request that is
\* being validated or has passed the validation: a request rejected
\* INVALID_SIGNATURE leaves no nonce behind.
C26_NonceOnlyOfValidRequests ==
    \A nonce \in DOMAIN NONCE_CACHE :
        \E q \in Posts :
            /\ NonceOf(req[q]) = nonce /\ RecordedNonce(q)
            /\ ~(Done(q) /\ run[q].resp.error_code = "INVALID_SIGNATURE")

\* C27: a step changes neither the job id nor the body hash recorded for a
\* key, and a key that is recorded is not stored again.
C27_RecordNeverMutated ==
    [][/\ \A key \in DOMAIN IDEMPOTENCY_CACHE :
             /\ key \in DOMAIN IDEMPOTENCY_CACHE'
             /\ IDEMPOTENCY_CACHE'[key] = IDEMPOTENCY_CACHE[key]
       /\ \A r \in Posts :
             Leaves(r, "p830") => Val(req[r].key) \notin DOMAIN IDEMPOTENCY_CACHE]_vars

(***************************************************************************)
(* Properties of rejected creation requests.                               *)
(***************************************************************************)
\* The error codes of the request-level validation.
Rejections ==
    RejectedBeforeNonce \cup
        {"INVALID_SIGNATURE", "NO_INPUT", "INVALID_INPUT", "PAYLOAD_TOO_LARGE"}

\* Request r has been rejected by the request-level validation.
Rejected(r) == Done(r) /\ run[r].resp.error_code \in Rejections

AllWrittenBack == \A j \in DOMAIN JOBS : j \in DOMAIN wloc /\ WrittenBack(j)

\* C21: every job inserted into the Job Store eventually has its worker
\* store a terminal status: whenever some inserted job has none, a state
\* follows in which every inserted job has one.
C21_NoJobDropped == (~AllWrittenBack) ~> AllWrittenBack

\* C21: a job that waited for a pool thread has been written back, as have
\* the three jobs that held the threads, after one of them was read as expired.
C21_Witness ==
    /\ Cardinality(DOMAIN JOBS) = MaxLivePosts
    /\ \A j \in DOMAIN JOBS : j \in DOMAIN wloc /\ WrittenBack(j)
    /\ \E j \in DOMAIN JOBS : ExpiredReadOf(j)

\* The submissions of job j that wait in the pool's queue.
Submissions(j) == {k \in 1..Len(queue) : queue[k] = j}

\* The positions of get_job_status inside its expiry branch.
ExpiryBranch == {"g866", "g869", "g870"}

InsertedBefore(a, b) == a \in DOMAIN JOBS /\ b \in DOMAIN JOBS /\ a < b

\* C22: when the status of a job goes from queued to processing, no job
\* inserted before it still has status queued.
C22_ProcessingInInsertionOrder ==
    [][\A b \in DOMAIN JOBS :
          JOBS[b].status = "queued" /\ JOBS'[b].status = "processing"
              => \A a \in DOMAIN JOBS :
                     InsertedBefore(a, b) => JOBS[a].status # "queued"]_vars

\* C22, as the pool behaves: when a pool thread picks up a job, every job
\* inserted before it has been submitted and picked up.
C22_PickedUpInInsertionOrder ==
    [][\A b \in Waiting :
          wpc'[b] # "queued"
              => \A a \in DOMAIN JOBS :
                     InsertedBefore(a, b) => a \in DOMAIN wpc /\ wpc[a] # "queued"]_vars

\* C22: a job is processing while a job inserted, submitted and picked up
\* before it still has status queued.
C22_Witness ==
    \E a \in DOMAIN wpc : \E b \in DOMAIN wpc :
        /\ InsertedBefore(a, b)
        /\ wpc[a] = "w195" /\ JOBS[a].status = "queued"
        /\ wpc[b] \in {"w200", "w209"} /\ JOBS[b].status = "processing"

(***************************************************************************)
(* Properties of the webhook's signature.                                  *)
(***************************************************************************)
\* The path of a callback URL.
CallbackPath(url) == <<"path", url>>

\* The X-Signature validate_request_signature expects of a POST to the
\* callback path that carries the webhook's body and X-Timestamp.
InboundSignature(hook) ==
    SignatureHeader(Hmac(WEBHOOK_SECRET,
        Message(hook.timestamp, "POST", CallbackPath(hook.url), hook.payload)))

\* C31: the X-Signature of every webhook is the one the inbound verification
\* computes from the webhook's body, X-Timestamp, method and path.
C31_WebhookSignedAsInbound ==
    \A k \in 1..Len(webhooks) :
        webhooks[k].request.signature = InboundSignature(webhooks[k].request)

(***************************************************************************)
(* Properties of the locking discipline.                                   *)
(***************************************************************************)
\* The positions of process_job inside a block on JOB_LOCK.
WorkerLocked == {"w200", "w251", "w252", "w253", "w254", "w267", "w268"}

\* The positions of a request handler inside a block on JOB_LOCK.
HandlerLocked == {"g869", "g870"}

\* The positions from which a thread's next step enters a block on JOB_LOCK.
WorkerAcquires == {"w195", "w215", "w224", "w250", "w265", "s283"}

HandlerAcquires == {"p767", "p776", "p833", "g854", "g866"}

\* The positions from which a request's next step is a block on NONCE_LOCK or
\* on IDEMPOTENCY_LOCK.
OtherLockBlocks == {"v380", "p755", "p830"}

\* The positions from which a worker's next step is an external call: the
\* archive decode, a URL fetch, the webhook POST.
ExternalCalls == {"w209", "w224", "s304"}

\* Some thread is about to acquire JOB_LOCK.
AwaitsJobLock ==
    \/ \E j \in DOMAIN wpc : wpc[j] \in WorkerAcquires
    \/ \E r \in Reqs : run[r].pc \in HandlerAcquires

\* C32: JOB_LOCK is held only by a thread inside one of its blocks; a block
\* on NONCE_LOCK or IDEMPOTENCY_LOCK and an external call are entered only
\* by a thread that does not hold JOB_LOCK, and while JOB_LOCK is held by
\* another thread the call does not start from inside a block; and whenever
\* a thread is about to acquire JOB_LOCK, a state follows where none is.
C32_LocksDeadlockFree ==
    /\ [](/\ \A j \in DOMAIN wpc :
                JOB_LOCK = WorkerOf(j) => wpc[j] \in WorkerLocked
          /\ \A r \in Reqs :
                JOB_LOCK = HandlerOf(r) => run[r].pc \in HandlerLocked
          /\ JOB_LOCK # Free
                => \/ \E j \in DOMAIN wpc : JOB_LOCK = WorkerOf(j)
                   \/ \E r \in Reqs : JOB_LOCK = HandlerOf(r))
    /\ [][/\ \A r \in Reqs :
                (\E pc \in OtherLockBlocks : Leaves(r, pc))
                    => JOB_LOCK # HandlerOf(r) /\ JOB_LOCK' # HandlerOf(r)
          /\ \A j \in DOMAIN wpc :
                wpc[j] \in ExternalCalls /\ wpc'[j] # wpc[j]
                    => JOB_LOCK # WorkerOf(j) /\ JOB_LOCK' # WorkerOf(j)]_vars
    /\ AwaitsJobLock ~> ~AwaitsJobLock

\* C32: a status read holds JOB_LOCK in its expiry branch while the
\* worker of the job waits for it, the nonce and the key being recorded.
C32_Witness ==
    \E r \in Gets : \E j \in DOMAIN wpc :
        /\ JOB_LOCK = HandlerOf(r) /\ TargetOf(r) = j
        /\ wpc[j] \in WorkerAcquires
        /\ DOMAIN NONCE_CACHE # {} /\ DOMAIN IDEMPOTENCY_CACHE # {}

(***************************************************************************)
(* Properties of replay protection.                                        *)
(***************************************************************************)
\* A request bearing X-Timestamp ts passes the freshness test at this instant.
Fresh(ts) == Abs(now - ts.n) <= SignatureWindow

\* C33: a nonce leaves the Nonce Store only when no accepted request that
\* bore it would still pass the freshness test, and of the requests that are
\* copies of one another at most one is accepted.
C33_NoSecondAcceptance ==
    /\ [][\A nonce \in DOMAIN NONCE_CACHE :
             nonce \notin DOMAIN NONCE_CACHE'
                 => \A q \in Posts :
                        NonceOf(req[q]) = nonce /\ Accepted(q) => ~Fresh(req[q].ts)]_vars
    /\ [](\A r1 \in Posts : \A r2 \in Posts :
             r1 # r2 /\ req[r1] = req[r2] => ~(Accepted(r1) /\ Accepted(r2)))

(***************************************************************************)
(* Properties of the ETag of an unchanged job.                             *)
(***************************************************************************)
\* What a status response reports of the job itself.
JobFields(response) == [response EXCEPT !.download_expires_at = 0]

\* C34: when two polls of a job have read the same fields of the job and the
\* second carries the ETag the first was answered with, the second is
\* answered 304 with that ETag.
C34_ETagStable ==
    \A r1 \in Gets : \A r2 \in Gets :
        /\ r1 < r2 /\ Polled(r1) /\ Polled(r2) /\ req[r1].job_id = req[r2].job_id
        /\ req[r2].inm = run[r1].resp.etag
        /\ JobFields(run[r1].response) = JobFields(run[r2].response)
        => /\ run[r2].resp.code = 304
           /\ run[r2].resp.etag = run[r1].resp.etag

(***************************************************************************)
(* Properties of requests without X-Request-Id.                            *)
(***************************************************************************)
\* Request r carries no X-Request-Id.
Anonymous(r) == req[r].rid = None

\* C35: the nonce check of a signed request without X-Request-Id looks up
\* and records the empty string, not the request id _before has generated;
\* it is rejected NONCE_REUSED whenever the empty string is in the Nonce
\* Store, hence whenever another such request has recorded it within the
\* last NONCE_TTL seconds.
C35_AnonymousShareNonce ==
    /\ [][\A r \in Posts :
             Leaves(r, "v380") /\ Anonymous(r)
                 => IF "" \in DOMAIN NONCE_CACHE
                    THEN /\ run'[r].pc = "done"
                         /\ run'[r].resp.code = 401
                         /\ run'[r].resp.error_code = "NONCE_REUSED"
                         /\ NONCE_CACHE' = NONCE_CACHE
                    ELSE /\ run'[r].pc = "v386"
                         /\ DOMAIN NONCE_CACHE' = DOMAIN NONCE_CACHE \cup {""}
                         /\ NONCE_CACHE'[""] = run[r].current_time
                         /\ run[r].request_id \notin DOMAIN NONCE_CACHE']_vars
    /\ [][\A r \in Posts :
             /\ Leaves(r, "v380") /\ Anonymous(r)
             /\ \E q \in Posts \ {r} :
                    /\ Anonymous(q) /\ RecordedNonce(q)
                    /\ now - run[q].current_time <= NONCE_TTL
             => /\ run'[r].pc = "done"
                /\ run'[r].resp.error_code = "NONCE_REUSED"]_vars

\* C35: of two different, correctly signed requests without X-Request-Id,
\* one has created its job and the other has been rejected NONCE_REUSED.
C35_Witness ==
    \E r \in Posts : \E q \in Posts :
        /\ Anonymous(r) /\ Anonymous(q) /\ req[r] # req[q]
        /\ Done(q) /\ run[q].resp.code = 202 /\ q \in DOMAIN JOBS
        /\ req[r].sig = Some(ExpectedSignature(req[r]))
        /\ Done(r) /\ run[r].resp.error_code = "NONCE_REUSED"

====
